---- MODULE Spec2Model ----
(***************************************************************************)
(* A model of the chess engine of src/Chess/chess.py: Piece, Square, Move  *)
(* and Position (move generation, make_move, the FEN getter and setter,    *)
(* SAN parsing), ZobristHasher, GameHeaderBag and EcoFileParser.  Strings  *)
(* of the program are TLA+ strings; a position is the record of the fields *)
(* of a Position object.  Spec runs a Position, BagSpec a GameHeaderBag    *)
(* and the Position it is bound to, EcoSpec an EcoFileParser whose         *)
(* current_position is held in the variables of the Position.              *)
(***************************************************************************)
EXTENDS Integers, Sequences, FiniteSets, TLC

VARIABLES board, turn, castling, ep_file, half_moves, ply, fuel, last,
          bag_headers, bag_game,
          chunks, current_state, current_eco, current_name, lookup,
          classification, plugin

vars ==
    <<board, turn, castling, ep_file, half_moves, ply, fuel, last,
      bag_headers, bag_game,
      chunks, current_state, current_eco, current_name, lookup,
      classification, plugin>>

(***************************************************************************)
(* Values                                                                  *)
(***************************************************************************)
None == "None"

START_FEN == "rnbqkbnr/pppppppp/8/8/8/8/PPPPPPPP/RNBQKBNR w KQkq - 0 1"

FILES == <<"a", "b", "c", "d", "e", "f", "g", "h">>

CASTLING_TYPES == <<"K", "Q", "k", "q">>

WhiteSymbols == {"P", "N", "B", "R", "Q", "K"}

BlackSymbols == {"p", "n", "b", "r", "q", "k"}

\* str[i] of the program: the i-th character (from 1) as a string
Char(s, i) == SubSeq(s, i, i)

Abs(n) == IF n < 0 THEN -n ELSE n

opposite_color(color) == IF color = "w" THEN "b" ELSE "w"

\* Piece.color: upper-case symbols are white
PieceColor(p) == IF p \in WhiteSymbols THEN "w" ELSE "b"

\* Piece.type: the lower-cased symbol
PieceType(p) ==
    CASE p \in {"P", "p"} -> "p"
      [] p \in {"N", "n"} -> "n"
      [] p \in {"B", "b"} -> "b"
      [] p \in {"R", "r"} -> "r"
      [] p \in {"Q", "q"} -> "q"
      [] p \in {"K", "k"} -> "k"

\* Piece.from_color_and_type
from_color_and_type(color, type) ==
    IF color = "w"
    THEN CASE type = "p" -> "P" [] type = "n" -> "N" [] type = "b" -> "B"
           [] type = "r" -> "R" [] type = "q" -> "Q" [] type = "k" -> "K"
    ELSE type

(***************************************************************************)
(* Square: a square is its x88 index, file + 16 * (7 - y)                  *)
(***************************************************************************)
\* x88 & 0x88 is non-zero, or x88 is outside 0..127: Square.from_x88 raises
OffBoard(i) == i < 0 \/ i > 127 \/ (i % 16) >= 8

OnBoardSquares == {i \in 0..127 : (i % 16) < 8}

SquareX(sq) == sq % 16

SquareY(sq) == 7 - (sq \div 16)

SquareRank(sq) == SquareY(sq) + 1

SquareFile(sq) == FILES[SquareX(sq) + 1]

from_x_and_y(x, y) == x + 16 * (7 - y)

FileIndex(file) == CHOOSE x \in 0..7 : FILES[x + 1] = file

from_rank_and_file(rank, file) == from_x_and_y(FileIndex(file), rank - 1)

SquareName(sq) == SquareFile(sq) \o Char("12345678", SquareRank(sq))

is_backrank(sq) == SquareY(sq) = 0 \/ SquareY(sq) = 7

(***************************************************************************)
(* Move                                                                    *)
(***************************************************************************)
Move(source, target, promotion) ==
    [source |-> source, target |-> target, promotion |-> promotion]

MoveIsNull(m) == m.source = m.target

\* Move.uci
MoveUci(m) ==
    IF MoveIsNull(m) THEN "0000"
    ELSE SquareName(m.source) \o SquareName(m.target)
           \o (IF m.promotion = None THEN "" ELSE m.promotion)

\* Move.__eq__ compares the uci strings
MoveEq(m1, m2) == MoveUci(m1) = MoveUci(m2)

(***************************************************************************)
(* Position: fields and simple accessors                                   *)
(***************************************************************************)
EmptyBoard == [i \in 0..127 |-> None]

\* the castling rights are kept as a string over "KQkq"
get_castling_right(P, type) ==
    \E i \in 1..Len(P.castling) : Char(P.castling, i) = type

RECURSIVE CastlingString(_, _, _, _)
CastlingString(P, type, status, i) ==
    IF i > 4 THEN ""
    ELSE LET t == CASTLING_TYPES[i]
             keep == IF t = type THEN status ELSE get_castling_right(P, t)
         IN  (IF keep THEN t ELSE "") \o CastlingString(P, type, status, i + 1)

set_castling_right(P, type, status) ==
    [P EXCEPT !.castling = CastlingString(P, type, status, 1)]

get_theoretical_castling_right(P, type) ==
    IF type \in {"K", "Q"}
    THEN IF P.board[from_rank_and_file(1, "e")] # "K" THEN FALSE
         ELSE IF type = "K" THEN P.board[from_rank_and_file(1, "h")] = "R"
              ELSE P.board[from_rank_and_file(1, "a")] = "R"
    ELSE IF P.board[from_rank_and_file(8, "e")] # "k" THEN FALSE
         ELSE IF type = "k" THEN P.board[from_rank_and_file(8, "h")] = "r"
              ELSE P.board[from_rank_and_file(8, "a")] = "r"

\* a variant that grants the right whatever stands beside the pawn
get_theoretical_ep_right_Always(P, file) == TRUE

get_theoretical_ep_right(P, file) ==
    LET pawn_square == from_rank_and_file(IF P.turn = "b" THEN 4 ELSE 5, file)
        opposite_color_pawn == from_color_and_type(opposite_color(P.turn), "p")
        square_below == from_rank_and_file(IF P.turn = "b" THEN 3 ELSE 6, file)
        f == FileIndex(file)
    IN  IF P.board[pawn_square] # opposite_color_pawn THEN FALSE
        ELSE IF P.board[square_below] # None THEN FALSE
        ELSE IF P.turn = "b"
             THEN (f > 0 /\ P.board[from_x_and_y(f - 1, 3)] = "p")
                  \/ (f < 7 /\ P.board[from_x_and_y(f + 1, 3)] = "p")
             ELSE (f > 0 /\ P.board[from_x_and_y(f - 1, 4)] = "P")
                  \/ (f < 7 /\ P.board[from_x_and_y(f + 1, 4)] = "P")

\* what get_king returns for a colour without a king (None in the program)
NoKing == -1

\* the first square of the board array that holds the king of the colour
get_king(P, color) ==
    LET king == from_color_and_type(color, "k")
        S == {i \in 0..127 : P.board[i] = king}
    IN  IF S = {} THEN NoKing
        ELSE CHOOSE i \in S : \A j \in S : i <= j

(***************************************************************************)
(* Position.make_move, the part after the validation                       *)
(***************************************************************************)
\* a variant that sets each right to what the king and rook squares allow
RECURSIVE UpdateCastling_FromSquares(_, _)
UpdateCastling_FromSquares(P, i) ==
    IF i > 4 THEN P
    ELSE LET type == CASTLING_TYPES[i]
         IN  UpdateCastling_FromSquares(
                 set_castling_right(P, type, get_theoretical_castling_right(P, type)),
                 i + 1)

\* a variant that prunes no castling right
UpdateCastling_KeepAll(P, i) == P

RECURSIVE UpdateCastling(_, _)
UpdateCastling(P, i) ==
    IF i > 4 THEN P
    ELSE LET type == CASTLING_TYPES[i]
         IN  IF ~get_theoretical_castling_right(P, type)
             THEN UpdateCastling(set_castling_right(P, type, FALSE), i + 1)
             ELSE UpdateCastling(P, i + 1)

\* the square a diagonal pawn move onto an empty square clears
EpCaptureSquare(move, new_turn) ==
    IF new_turn = "w" THEN move.target - 16 ELSE move.target + 16

ApplyMove(P, move) ==
    LET piece == P.board[move.source]
        capture == P.board[move.target]
        \* Move the piece.
        b1 == [P.board EXCEPT ![move.target] = piece, ![move.source] = None]
        \* It is the next players turn.
        t1 == opposite_color(P.turn)
        isPawn == PieceType(piece) = "p"
        enpassant == isPawn /\ SquareFile(move.target) # SquareFile(move.source)
                     /\ capture = None
        b2 == IF enpassant
              THEN [b1 EXCEPT ![EpCaptureSquare(move, t1)] = None]
              ELSE b1
        captured == enpassant \/ capture # None
        bigPawn == isPawn
                   /\ Abs(SquareRank(move.target) - SquareRank(move.source)) = 2
        ep1 == IF bigPawn
                  /\ get_theoretical_ep_right([P EXCEPT !.board = b2, !.turn = t1],
                                              SquareFile(move.target))
               THEN SquareFile(move.target)
               ELSE None
        \* Promotion.
        b3 == IF move.promotion # None
              THEN [b2 EXCEPT ![move.target] =
                       from_color_and_type(PieceColor(piece), move.promotion)]
              ELSE b2
        \* Potential castling.
        steps == SquareX(move.target) - SquareX(move.source)
        rook_target == IF steps = -2 THEN move.target + 1 ELSE move.target - 1
        rook_source == IF steps = -2 THEN move.target - 2 ELSE move.target + 1
        b4 == IF PieceType(piece) = "k" /\ Abs(steps) = 2
              THEN [b3 EXCEPT ![rook_target] = b3[rook_source],
                              ![rook_source] = None]
              ELSE b3
        hm == IF isPawn \/ captured THEN 0 ELSE P.half_moves + 1
        ply1 == IF t1 = "w" THEN P.ply + 1 ELSE P.ply
    IN  UpdateCastling([board |-> b4, turn |-> t1, castling |-> P.castling,
                        ep_file |-> ep1, half_moves |-> hm, ply |-> ply1], 1)

\* an index make_move hands to __setitem__ / __delitem__ that is off the board
ApplyMoveRaises(P, move) ==
    LET piece == P.board[move.source]
        steps == SquareX(move.target) - SquareX(move.source)
    IN  \/ piece = None
        \/ /\ PieceType(piece) = "p"
           /\ SquareFile(move.target) # SquareFile(move.source)
           /\ P.board[move.target] = None
           /\ OffBoard(EpCaptureSquare(move, opposite_color(P.turn)))
        \/ /\ PieceType(piece) = "k"
           /\ Abs(steps) = 2
           /\ \/ OffBoard(IF steps = -2 THEN move.target + 1 ELSE move.target - 1)
              \/ OffBoard(IF steps = -2 THEN move.target - 2 ELSE move.target + 1)

(***************************************************************************)
(* Position.get_attackers / is_attacked                                    *)
(***************************************************************************)
ATTACKS == <<
    20, 0, 0, 0, 0, 0, 0, 24, 0, 0, 0, 0, 0, 0, 20, 0,
    0, 20, 0, 0, 0, 0, 0, 24, 0, 0, 0, 0, 0, 20, 0, 0,
    0, 0, 20, 0, 0, 0, 0, 24, 0, 0, 0, 0, 20, 0, 0, 0,
    0, 0, 0, 20, 0, 0, 0, 24, 0, 0, 0, 20, 0, 0, 0, 0,
    0, 0, 0, 0, 20, 0, 0, 24, 0, 0, 20, 0, 0, 0, 0, 0,
    0, 0, 0, 0, 0, 20, 2, 24, 2, 20, 0, 0, 0, 0, 0, 0,
    0, 0, 0, 0, 0, 2, 53, 56, 53, 2, 0, 0, 0, 0, 0, 0,
    24, 24, 24, 24, 24, 24, 56, 0, 56, 24, 24, 24, 24, 24, 24, 0,
    0, 0, 0, 0, 0, 2, 53, 56, 53, 2, 0, 0, 0, 0, 0, 0,
    0, 0, 0, 0, 0, 20, 2, 24, 2, 20, 0, 0, 0, 0, 0, 0,
    0, 0, 0, 0, 20, 0, 0, 24, 0, 0, 20, 0, 0, 0, 0, 0,
    0, 0, 0, 20, 0, 0, 0, 24, 0, 0, 0, 20, 0, 0, 0, 0,
    0, 0, 20, 0, 0, 0, 0, 24, 0, 0, 0, 0, 20, 0, 0, 0,
    0, 20, 0, 0, 0, 0, 0, 24, 0, 0, 0, 0, 0, 20, 0, 0,
    20, 0, 0, 0, 0, 0, 0, 24, 0, 0, 0, 0, 0, 0, 20 >>

RAYS == <<
    17, 0, 0, 0, 0, 0, 0, 16, 0, 0, 0, 0, 0, 0, 15, 0,
    0, 17, 0, 0, 0, 0, 0, 16, 0, 0, 0, 0, 0, 15, 0, 0,
    0, 0, 17, 0, 0, 0, 0, 16, 0, 0, 0, 0, 15, 0, 0, 0,
    0, 0, 0, 17, 0, 0, 0, 16, 0, 0, 0, 15, 0, 0, 0, 0,
    0, 0, 0, 0, 17, 0, 0, 16, 0, 0, 15, 0, 0, 0, 0, 0,
    0, 0, 0, 0, 0, 17, 0, 16, 0, 15, 0, 0, 0, 0, 0, 0,
    0, 0, 0, 0, 0, 0, 17, 16, 15, 0, 0, 0, 0, 0, 0, 0,
    1, 1, 1, 1, 1, 1, 1, 0, -1, -1, -1, -1, -1, -1, -1, 0,
    0, 0, 0, 0, 0, 0, -15, -16, -17, 0, 0, 0, 0, 0, 0, 0,
    0, 0, 0, 0, 0, -15, 0, -16, 0, -17, 0, 0, 0, 0, 0, 0,
    0, 0, 0, 0, -15, 0, 0, -16, 0, 0, -17, 0, 0, 0, 0, 0,
    0, 0, 0, -15, 0, 0, 0, -16, 0, 0, 0, -17, 0, 0, 0, 0,
    0, 0, -15, 0, 0, 0, 0, -16, 0, 0, 0, 0, -17, 0, 0, 0,
    0, -15, 0, 0, 0, 0, 0, -16, 0, 0, 0, 0, 0, -17, 0, 0,
    -15, 0, 0, 0, 0, 0, 0, -16, 0, 0, 0, 0, 0, 0, -17 >>

\* 1 << SHIFTS[type]
ShiftBit(type) ==
    CASE type = "p" -> 1 [] type = "n" -> 2 [] type = "b" -> 4
      [] type = "r" -> 8 [] type = "q" -> 16 [] type = "k" -> 32

\* n & bit, for bit a power of two
HasBit(n, bit) == (n \div bit) % 2 = 1

\* the walk of get_attackers from j towards square: a piece on the way blocks
RECURSIVE RayBlocked(_, _, _, _)
RayBlocked(b, j, offset, square) ==
    IF j = square THEN FALSE
    ELSE IF b[j] # None THEN TRUE
    ELSE RayBlocked(b, j + offset, offset, square)

\* whether get_attackers(color, square) yields the piece standing on source
Attacks(P, source, square) ==
    LET piece == P.board[source]
        type == PieceType(piece)
        difference == source - square
        index == difference + 119
    IN  /\ HasBit(ATTACKS[index + 1], ShiftBit(type))
        /\ IF type = "p"
           THEN IF difference > 0 THEN PieceColor(piece) = "w"
                ELSE PieceColor(piece) = "b"
           ELSE \/ type \in {"n", "k"}
                \/ ~RayBlocked(P.board, source + RAYS[index + 1],
                               RAYS[index + 1], square)

\* get_attackers raises when a piece of the colour stands off the board
AttackersRaise(P, color) ==
    \E i \in 0..127 : /\ OffBoard(i) /\ P.board[i] # None
                      /\ PieceColor(P.board[i]) = color

\* a variant that asks the ATTACKS table only: no ray is walked to look for
\* a piece in between, and a pawn attacks both ways
is_attacked_ThroughPieces(P, color, square) ==
    \E source \in OnBoardSquares :
        /\ P.board[source] # None
        /\ PieceColor(P.board[source]) = color
        /\ HasBit(ATTACKS[source - square + 120],
                  ShiftBit(PieceType(P.board[source])))

is_attacked(P, color, square) ==
    \E source \in OnBoardSquares :
        /\ P.board[source] # None
        /\ PieceColor(P.board[source]) = color
        /\ Attacks(P, source, square)

is_king_attacked(P, color) ==
    LET square == get_king(P, color)
    IN  IF square # NoKing THEN is_attacked(P, opposite_color(color), square)
        ELSE FALSE

is_check(P) == is_king_attacked(P, P.turn)

(***************************************************************************)
(* Position.get_pseudo_legal_moves: the moves in the order they are        *)
(* yielded, and whether the generator ends by raising an error             *)
(***************************************************************************)
PAWN_OFFSETS(color) ==
    IF color = "b" THEN <<16, 32, 17, 15>> ELSE <<-16, -32, -17, -15>>

PIECE_OFFSETS(type) ==
    CASE type = "n" -> <<-18, -33, -31, -14, 18, 33, 31, 14>>
      [] type = "b" -> <<-17, -15, 17, 15>>
      [] type = "r" -> <<-16, 1, 16, -1>>
      [] type = "q" -> <<-17, -16, -15, 1, 17, 16, 15, -1>>
      [] type = "k" -> <<-17, -16, -15, 1, 17, 16, 15, -1>>

\* for promote_to in "bnrq": yield Move(square, target, promote_to)
Promotions(square, target) ==
    << Move(square, target, "b"), Move(square, target, "n"),
       Move(square, target, "r"), Move(square, target, "q") >>

\* the guard of the en-passant branch of the pawn captures
EnPassantGuard(P, target) ==
    P.board[target] = None /\ SquareFile(target) = P.ep_file

\* one iteration of "for j in [2, 3]"
PawnCapture(P, square, j) ==
    LET target_index == square + PAWN_OFFSETS(P.turn)[j + 1]
    IN  IF OffBoard(target_index) THEN << >>
        ELSE IF P.board[target_index] # None
                /\ PieceColor(P.board[target_index]) # P.turn
             THEN IF is_backrank(target_index)
                  THEN Promotions(square, target_index)
                  ELSE << Move(square, target_index, None) >>
             ELSE IF EnPassantGuard(P, target_index)
                  THEN << Move(square, target_index, None) >>
                  ELSE << >>

\* the pawn branch; Square.from_x88 raises for the square ahead of a pawn
\* that stands on the last rank
\* a variant without the double step from the pawn's home rank
PawnMoves_SingleStep(P, square) ==
    LET ahead == square + PAWN_OFFSETS(P.turn)[1]
        single == IF P.board[ahead] # None THEN << >>
                  ELSE IF is_backrank(ahead) THEN Promotions(square, ahead)
                  ELSE << Move(square, ahead, None) >>
    IN  IF OffBoard(ahead) THEN [moves |-> << >>, raised |-> TRUE]
        ELSE [moves |-> single \o PawnCapture(P, square, 2)
                          \o PawnCapture(P, square, 3),
              raised |-> FALSE]

PawnMoves(P, square) ==
    LET ahead == square + PAWN_OFFSETS(P.turn)[1]
        ahead2 == square + PAWN_OFFSETS(P.turn)[2]
        single == IF P.board[ahead] # None THEN << >>
                  ELSE IF is_backrank(ahead) THEN Promotions(square, ahead)
                  ELSE << Move(square, ahead, None) >>
        double == IF P.board[ahead] = None
                     /\ ( (P.turn = "w" /\ SquareRank(square) = 2)
                          \/ (P.turn = "b" /\ SquareRank(square) = 7) )
                     /\ P.board[ahead2] = None
                  THEN << Move(square, ahead2, None) >>
                  ELSE << >>
    IN  IF OffBoard(ahead) THEN [moves |-> << >>, raised |-> TRUE]
        ELSE [moves |-> single \o double \o PawnCapture(P, square, 2)
                          \o PawnCapture(P, square, 3),
              raised |-> FALSE]

\* the while loop of one offset of a knight, bishop, rook, queen or king
RECURSIVE RayMoves(_, _, _, _, _)
RayMoves(P, square, target_index, offset, type) ==
    IF OffBoard(target_index) THEN << >>
    ELSE IF P.board[target_index] = None
         THEN << Move(square, target_index, None) >>
              \o (IF type \in {"n", "k"} THEN << >>
                  ELSE RayMoves(P, square, target_index + offset, offset, type))
         ELSE IF PieceColor(P.board[target_index]) = P.turn THEN << >>
              ELSE << Move(square, target_index, None) >>

RECURSIVE OffsetMoves(_, _, _, _)
OffsetMoves(P, square, type, k) ==
    IF k > Len(PIECE_OFFSETS(type)) THEN << >>
    ELSE RayMoves(P, square, square + PIECE_OFFSETS(type)[k],
                  PIECE_OFFSETS(type)[k], type)
         \o OffsetMoves(P, square, type, k + 1)

\* the slots of the board array, in the order of enumerate(self.__board)
Slots == [i \in 1..128 |-> i - 1]

\* the slots the loop does not skip: those holding a piece of the side to move
OwnSlots(P) ==
    SelectSeq(Slots, LAMBDA x88 : P.board[x88] # None
                                  /\ PieceColor(P.board[x88]) = P.turn)

\* the loop over the board, from the k-th piece of the side to move on
RECURSIVE BoardMoves(_, _, _)
BoardMoves(P, own, k) ==
    IF k > Len(own) THEN [moves |-> << >>, raised |-> FALSE]
    ELSE IF OffBoard(own[k]) THEN [moves |-> << >>, raised |-> TRUE]
    ELSE LET x88 == own[k]
             first == IF PieceType(P.board[x88]) = "p" THEN PawnMoves(P, x88)
                      ELSE [moves |-> OffsetMoves(P, x88, PieceType(P.board[x88]), 1),
                            raised |-> FALSE]
         IN  IF first.raised THEN first
             ELSE LET rest == BoardMoves(P, own, k + 1)
                  IN  [moves |-> first.moves \o rest.moves, raised |-> rest.raised]

\* the conjunction guarding the king-side castling move
KingSideGuard(P, of) ==
    LET opponent == opposite_color(P.turn)
    IN  /\ P.board[of + 1] = None
        /\ P.board[of + 2] = None
        /\ ~is_check(P)
        /\ ~is_attacked(P, opponent, of + 1)
        /\ ~is_attacked(P, opponent, of + 2)

\* an index of the king-side conjunction is off the board, or the king is missing
KingSideRaises(P, of) ==
    \/ of = NoKing
    \/ OffBoard(of)
    \/ OffBoard(of + 1)
    \/ (P.board[of + 1] = None /\ OffBoard(of + 2))
    \/ (P.board[of + 1] = None /\ P.board[of + 2] = None
        /\ AttackersRaise(P, opposite_color(P.turn)))

\* the conjunction guarding the queen-side castling move
QueenSideGuard(P, of) ==
    LET opponent == opposite_color(P.turn)
    IN  /\ P.board[of - 1] = None
        /\ P.board[of - 2] = None
        /\ P.board[of - 3] = None
        /\ ~is_check(P)
        /\ ~is_attacked(P, opponent, of - 1)
        /\ ~is_attacked(P, opponent, of - 2)

QueenSideRaises(P, of) ==
    \/ of = NoKing
    \/ OffBoard(of)
    \/ OffBoard(of - 1)
    \/ (P.board[of - 1] = None /\ OffBoard(of - 2))
    \/ (P.board[of - 1] = None /\ P.board[of - 2] = None /\ OffBoard(of - 3))
    \/ (P.board[of - 1] = None /\ P.board[of - 2] = None
        /\ P.board[of - 3] = None /\ AttackersRaise(P, opposite_color(P.turn)))

CastlingMoves(P) ==
    LET k == IF P.turn = "b" THEN "k" ELSE "K"
        q == IF P.turn = "b" THEN "q" ELSE "Q"
        of == get_king(P, P.turn)
        kraise == get_castling_right(P, k) /\ KingSideRaises(P, of)
        kside == IF get_castling_right(P, k) /\ ~kraise /\ KingSideGuard(P, of)
                 THEN << Move(of, of + 2, None) >> ELSE << >>
        qraise == get_castling_right(P, q) /\ QueenSideRaises(P, of)
        qside == IF get_castling_right(P, q) /\ ~qraise /\ QueenSideGuard(P, of)
                 THEN << Move(of, of - 2, None) >> ELSE << >>
    IN  IF kraise THEN [moves |-> << >>, raised |-> TRUE]
        ELSE [moves |-> kside \o qside, raised |-> qraise]

get_pseudo_legal_moves(P) ==
    LET pieces == BoardMoves(P, OwnSlots(P), 1)
        castles == CastlingMoves(P)
    IN  IF pieces.raised THEN pieces
        ELSE [moves |-> pieces.moves \o castles.moves, raised |-> castles.raised]

(***************************************************************************)
(* Strings: the library functions the FEN code uses                        *)
(***************************************************************************)
\* c in s, for a one-character string c
InStr(c, s) == \E i \in 1..Len(s) : Char(s, i) = c

DigitValue(c) == (CHOOSE i \in 1..10 : Char("0123456789", i) = c) - 1

\* str(n) for n >= 0
RECURSIVE Str(_)
Str(n) ==
    IF n < 10 THEN Char("0123456789", n + 1)
    ELSE Str(n \div 10) \o Char("0123456789", (n % 10) + 1)

\* int(s) for a string of decimal digits
RECURSIVE ParseInt(_)
ParseInt(s) ==
    IF Len(s) = 0 THEN 0
    ELSE 10 * ParseInt(SubSeq(s, 1, Len(s) - 1)) + DigitValue(Char(s, Len(s)))

\* s.split(sep) for a one-character separator: empty parts are kept
RECURSIVE SplitAt(_, _, _, _)
SplitAt(s, sep, i, start) ==
    IF i > Len(s) THEN << SubSeq(s, start, Len(s)) >>
    ELSE IF Char(s, i) = sep
         THEN << SubSeq(s, start, i - 1) >> \o SplitAt(s, sep, i + 1, i + 1)
         ELSE SplitAt(s, sep, i + 1, start)

Split(s, sep) == SplitAt(s, sep, 1, 1)

\* s.split(): the parts between runs of blanks, none of them empty
SplitBlanks(s) == SelectSeq(Split(s, " "), LAMBDA t : Len(t) > 0)

RECURSIVE Join(_, _)
Join(parts, sep) ==
    IF Len(parts) = 0 THEN ""
    ELSE IF Len(parts) = 1 THEN parts[1]
    ELSE parts[1] \o sep \o Join(Tail(parts), sep)

(***************************************************************************)
(* Position.fen, the getter                                                *)
(***************************************************************************)
\* the squares of rank y from file x on, with `empty` empty squares pending
RECURSIVE FenRow(_, _, _, _)
FenRow(P, y, x, empty) ==
    IF x > 7 THEN (IF empty > 0 THEN Str(empty) ELSE "")
    ELSE LET piece == P.board[from_x_and_y(x, y)]
         IN  IF piece = None THEN FenRow(P, y, x + 1, empty + 1)
             ELSE (IF empty > 0 THEN Str(empty) ELSE "") \o piece
                  \o FenRow(P, y, x + 1, 0)

RECURSIVE FenRows(_, _)
FenRows(P, y) ==
    IF y < 0 THEN ""
    ELSE FenRow(P, y, 0, 0) \o (IF y # 0 THEN "/" ELSE "") \o FenRows(P, y - 1)

FenEpSquare(P) ==
    IF P.ep_file # None /\ get_theoretical_ep_right(P, P.ep_file)
    THEN P.ep_file \o (IF P.turn = "b" THEN "3" ELSE "6")
    ELSE "-"

FenOf(P) ==
    Join(<< FenRows(P, 7),
            P.turn,
            IF P.castling # "" THEN P.castling ELSE "-",
            FenEpSquare(P),
            Str(P.half_moves),
            Str(P.ply) >>, " ")

(***************************************************************************)
(* Position.fen, the setter                                                *)
(***************************************************************************)
\* the check of one row of the position part: "error" when the loop raises
RECURSIVE RowCheck(_, _, _, _)
RowCheck(row, i, field_sum, previous_was_number) ==
    IF i > Len(row) THEN "ok"
    ELSE LET char == Char(row, i)
         IN  IF InStr(char, "12345678")
             THEN IF previous_was_number THEN "error"
                  ELSE RowCheck(row, i + 1, field_sum + DigitValue(char), TRUE)
             ELSE IF InStr(char, "pnbrkqPNBRKQ")
                  THEN RowCheck(row, i + 1, field_sum + 1, FALSE)
                  ELSE "error"

\* ^(KQ?k?q?|Qk?q?|kq?|q|-)$
CastlingFieldOk(t) ==
    \/ t = "-"
    \/ /\ Len(t) > 0
       /\ \A i \in 1..Len(t) : InStr(Char(t, i), "KQkq")
       /\ \A i \in 1..Len(t) : \A j \in 1..Len(t) :
             i < j => (CHOOSE a \in 1..4 : Char("KQkq", a) = Char(t, i))
                      < (CHOOSE a \in 1..4 : Char("KQkq", a) = Char(t, j))

\* ^(-|[a-h][36])$
EpFieldOk(t) ==
    \/ t = "-"
    \/ Len(t) = 2 /\ InStr(Char(t, 1), "abcdefgh") /\ InStr(Char(t, 2), "36")

\* ^(0|[1-9][0-9]*)$
HalfMoveFieldOk(t) ==
    \/ t = "0"
    \/ /\ Len(t) > 0
       /\ InStr(Char(t, 1), "123456789")
       /\ \A i \in 1..Len(t) : InStr(Char(t, i), "0123456789")

\* ^[1-9][0-9]*$
PlyFieldOk(t) ==
    /\ Len(t) > 0
    /\ InStr(Char(t, 1), "123456789")
    /\ \A i \in 1..Len(t) : InStr(Char(t, i), "0123456789")

\* the checks before the first assignment: TRUE when one of them raises
FenRejected(fen) ==
    LET tokens == SplitBlanks(fen)
        rows == Split(tokens[1], "/")
    IN  \/ Len(tokens) # 6
        \/ Len(rows) # 8
        \/ \E r \in 1..Len(rows) : RowCheck(rows[r], 1, 0, FALSE) = "error"
        \/ tokens[2] \notin {"w", "b"}
        \/ ~CastlingFieldOk(tokens[3])
        \/ ~EpFieldOk(tokens[4])
        \/ ~HalfMoveFieldOk(tokens[5])
        \/ ~PlyFieldOk(tokens[6])

\* "Set pieces on the board": the slots written from symbol k of the position
\* part on, with the write index at i; an index past the array raises
RECURSIVE LoadBoard(_, _, _, _)
LoadBoard(b, placement, k, i) ==
    IF k > Len(placement) THEN [board |-> b, raised |-> FALSE]
    ELSE LET symbol == Char(placement, k)
         IN  IF symbol = "/" THEN LoadBoard(b, placement, k + 1, i + 8)
             ELSE IF InStr(symbol, "12345678")
                  THEN LoadBoard(b, placement, k + 1, i + DigitValue(symbol))
             ELSE IF i > 127 THEN [board |-> b, raised |-> TRUE]
             ELSE LoadBoard([b EXCEPT ![i] = symbol], placement, k + 1, i + 1)

RECURSIVE SetCastling(_, _, _)
SetCastling(P, field, i) ==
    IF i > 4 THEN P
    ELSE SetCastling(set_castling_right(P, CASTLING_TYPES[i],
                                        InStr(CASTLING_TYPES[i], field)),
                     field, i + 1)

\* the assignment P.fen = fen: the position afterwards, and whether it raised
SetFen(P, fen) ==
    IF FenRejected(fen) THEN [pos |-> P, raised |-> TRUE]
    ELSE LET tokens == SplitBlanks(fen)
             loaded == LoadBoard(EmptyBoard, tokens[1], 1, 0)
             P1 == [P EXCEPT !.board = loaded.board]
             P2 == SetCastling([P1 EXCEPT !.turn = tokens[2]], tokens[3], 1)
         IN  IF loaded.raised THEN [pos |-> P1, raised |-> TRUE]
             ELSE [pos |-> [P2 EXCEPT
                              !.ep_file = IF tokens[4] = "-" THEN None
                                          ELSE Char(tokens[4], 1),
                              !.half_moves = ParseInt(tokens[5]),
                              !.ply = ParseInt(tokens[6])],
                   raised |-> FALSE]

\* the fields of an object on which __init__ has only set __castling
Blank ==
    [board |-> EmptyBoard, turn |-> None, castling |-> "KQkq",
     ep_file |-> None, half_moves |-> 0, ply |-> 0]

\* Position(fen)
NewPosition(fen) == SetFen(Blank, fen)

\* the object Position() makes
StartPosition == NewPosition(START_FEN).pos

\* Position.copy
Copy(P) == NewPosition(FenOf(P)).pos

(***************************************************************************)
(* Position.get_legal_moves                                                *)
(***************************************************************************)
\* the test of the filter: the mover's king is not attacked once the move is
\* made on the scratch copy
\* a variant that looks at the king before the move is made
KeepsKingSafe_BeforeMove(scratch, move, color) ==
    ~is_king_attacked(scratch, color)

KeepsKingSafe(scratch, move, color) ==
    ~is_king_attacked(ApplyMove(scratch, move), color)

\* the loop of get_legal_moves over the pseudo-legal moves from the i-th on;
\* scratch is self.copy(), the same for every move as self does not change;
\* make_move on the scratch copy can raise, which ends the generator
RECURSIVE LegalFrom(_, _, _, _)
LegalFrom(P, scratch, pseudo, i) ==
    IF i > Len(pseudo.moves) THEN [moves |-> << >>, raised |-> pseudo.raised]
    ELSE IF ApplyMoveRaises(scratch, pseudo.moves[i])
         THEN [moves |-> << >>, raised |-> TRUE]
    ELSE LET rest == LegalFrom(P, scratch, pseudo, i + 1)
         IN  IF KeepsKingSafe(scratch, pseudo.moves[i], P.turn)
             THEN [moves |-> << pseudo.moves[i] >> \o rest.moves,
                   raised |-> rest.raised]
             ELSE rest

get_legal_moves(P) ==
    LET scratch == Copy(P)
    IN  LegalFrom(P, scratch, get_pseudo_legal_moves(P), 1)

\* move in self.get_legal_moves(), for legal the moves the generator yields
MoveIn(move, legal) == \E i \in 1..Len(legal) : MoveEq(legal[i], move)

(***************************************************************************)
(* Position.make_move(move, validate); legal is self.get_legal_moves(),    *)
(* which the caller evaluates once for all the moves it tries on P         *)
(***************************************************************************)
\* a variant that applies the move before it is validated
make_move_ApplyFirst(P, legal, move, validate) ==
    IF validate /\ ~MoveIn(move, legal.moves)
    THEN [pos |-> IF P.board[move.source] = None THEN P ELSE ApplyMove(P, move),
          raised |-> TRUE]
    ELSE [pos |-> ApplyMove(P, move), raised |-> FALSE]

\* a variant whose half-move clock runs on over pawn moves and captures
make_move_ClockRuns(P, legal, move, validate) ==
    IF validate /\ ~MoveIn(move, legal.moves)
    THEN [pos |-> P, raised |-> TRUE]
    ELSE [pos |-> [ApplyMove(P, move) EXCEPT !.half_moves = P.half_moves + 1],
          raised |-> FALSE]

make_move(P, legal, move, validate) ==
    IF validate /\ ~MoveIn(move, legal.moves)
    THEN [pos |-> P, raised |-> TRUE]
    ELSE [pos |-> ApplyMove(P, move), raised |-> FALSE]

(***************************************************************************)
(* Position.get_move_from_san                                              *)
(***************************************************************************)
\* the groups of ^([NBKRQ])?([a-h])?([1-8])?x?([a-h][1-8])(=[NBRQ])?(\+|#)?$
\* on san, "" for a group that takes no part; ok is FALSE when nothing matches
SanGroups(san, n1, hasPromo, n2, hasPiece, hasFile, i2, hasRank, i3) ==
    [ok |-> TRUE,
     piece |-> IF hasPiece THEN Char(san, 1) ELSE "",
     file |-> IF hasFile THEN Char(san, i2) ELSE "",
     rank |-> IF hasRank THEN Char(san, i3) ELSE "",
     target |-> SubSeq(san, n2 - 1, n2),
     promotion |-> IF hasPromo THEN SubSeq(san, n1 - 1, n1) ELSE ""]

\* ([1-8])? from position i3 on; the groups before x? end at position n4
SanRank(san, n1, hasPromo, n2, n4, hasPiece, hasFile, i2, i3, hasRank) ==
    IF (IF hasRank THEN i3 + 1 ELSE i3) = n4 + 1
    THEN SanGroups(san, n1, hasPromo, n2, hasPiece, hasFile, i2, hasRank, i3)
    ELSE [ok |-> FALSE]

\* ([a-h])? from position i2 on
SanFile(san, n1, hasPromo, n2, n4, hasPiece, i2, hasFile, i3) ==
    SanRank(san, n1, hasPromo, n2, n4, hasPiece, hasFile, i2, i3,
            i3 <= n4 /\ InStr(Char(san, i3), "12345678"))

\* ([NBKRQ])? at position 1
SanPiece(san, n1, hasPromo, n2, n4, hasPiece, i2, hasFile) ==
    SanFile(san, n1, hasPromo, n2, n4, hasPiece, i2, hasFile,
            IF hasFile THEN i2 + 1 ELSE i2)

SanPrefix(san, n1, hasPromo, n2, n4, hasPiece, i2) ==
    SanPiece(san, n1, hasPromo, n2, n4, hasPiece, i2,
             i2 <= n4 /\ InStr(Char(san, i2), "abcdefgh"))

\* x?([a-h][1-8]) ends at position n2
SanTarget(san, n1, hasPromo, n2, n4) ==
    IF n2 >= 2 /\ InStr(Char(san, n2 - 1), "abcdefgh")
               /\ InStr(Char(san, n2), "12345678")
    THEN SanPrefix(san, n1, hasPromo, n2, n4,
                   n4 > 0 /\ InStr(Char(san, 1), "NBKRQ"),
                   IF n4 > 0 /\ InStr(Char(san, 1), "NBKRQ") THEN 2 ELSE 1)
    ELSE [ok |-> FALSE]

SanCapture(san, n1, hasPromo, n2) ==
    SanTarget(san, n1, hasPromo, n2,
              IF n2 - 2 > 0 /\ Char(san, n2 - 2) = "x" THEN n2 - 3 ELSE n2 - 2)

\* (=[NBRQ])? ends at position n1
SanPromotion(san, n1, hasPromo) ==
    SanCapture(san, n1, hasPromo, IF hasPromo THEN n1 - 2 ELSE n1)

\* (\+|#)? is the last character
SanSuffix(san, n1) ==
    SanPromotion(san, n1, n1 >= 2 /\ Char(san, n1 - 1) = "="
                                  /\ InStr(Char(san, n1), "NBRQ"))

SanMatch(san) ==
    SanSuffix(san, IF Len(san) > 0 /\ InStr(Char(san, Len(san)), "+#")
                   THEN Len(san) - 1 ELSE Len(san))

\* str.lower() on a piece letter
LowerPiece(c) ==
    CASE c = "N" -> "n" [] c = "B" -> "b" [] c = "K" -> "k"
      [] c = "R" -> "r" [] c = "Q" -> "q"

\* Square(name)
SquareOf(name) ==
    from_rank_and_file(DigitValue(Char(name, 2)), Char(name, 1))

\* the test of the loop body: the legal move m passes the three "continue"s
SanLoopMatch(P, g, m) ==
    /\ P.board[m.source] = from_color_and_type(
           P.turn, IF g.piece # "" THEN LowerPiece(g.piece) ELSE "p")
    /\ m.target = SquareOf(g.target)
    /\ (g.file # "" => g.file = SquareFile(m.source))
    /\ (g.rank # "" => g.rank = Str(SquareRank(m.source)))

\* the castling branch: a king move built from the token alone
SanCastling(P, san) ==
    LET rank == IF P.turn = "w" THEN 1 ELSE 8
    IN  IF san = "O-O"
        THEN Move(from_rank_and_file(rank, "e"), from_rank_and_file(rank, "g"), None)
        ELSE Move(from_rank_and_file(rank, "e"), from_rank_and_file(rank, "c"), None)

\* legal is self.get_legal_moves(); the result is the move returned, or raised
get_move_from_san(P, legal, san) ==
    IF san = "O-O" \/ san = "O-O-O"
    THEN [move |-> SanCastling(P, san), raised |-> FALSE]
    ELSE LET g == SanMatch(san)
             hits == SelectSeq(legal.moves, LAMBDA m : SanLoopMatch(P, g, m))
         IN  IF ~g.ok THEN [move |-> None, raised |-> TRUE]
             \* "Move is ambiguous", raised at the second match
             ELSE IF Len(hits) > 1 THEN [move |-> None, raised |-> TRUE]
             \* the generator raised before the loop could end
             ELSE IF legal.raised THEN [move |-> None, raised |-> TRUE]
             \* "No legal move matches"
             ELSE IF Len(hits) = 0 THEN [move |-> None, raised |-> TRUE]
             \* Move(source, target, "=Q"): "Expected promotion type"
             ELSE IF g.promotion # "" THEN [move |-> None, raised |-> TRUE]
             ELSE [move |-> Move(hits[1].source, SquareOf(g.target), None),
                   raised |-> FALSE]

(***************************************************************************)
(* Position.is_checkmate / is_stalemate; legal is self.get_legal_moves()   *)
(***************************************************************************)
\* a variant that takes every check for a mate
is_checkmate_AnyCheck(P, legal) ==
    [value |-> is_check(P), raised |-> FALSE]

is_checkmate(P, legal) ==
    IF ~is_check(P) THEN [value |-> FALSE, raised |-> FALSE]
    ELSE [value |-> Len(legal.moves) = 0 /\ ~legal.raised, raised |-> legal.raised]

\* a variant that does not look whether the king is in check
is_stalemate_NoCheckTest(P, legal) ==
    [value |-> Len(legal.moves) = 0 /\ ~legal.raised, raised |-> legal.raised]

is_stalemate(P, legal) ==
    IF is_check(P) THEN [value |-> FALSE, raised |-> FALSE]
    ELSE [value |-> Len(legal.moves) = 0 /\ ~legal.raised, raised |-> legal.raised]

(***************************************************************************)
(* Position.get_move_info: the san of the MoveInfo it returns              *)
(***************************************************************************)
\* the same piece on another source square moves to the same target
Ambiguous(P, move, m) ==
    /\ P.board[m.source] = P.board[move.source]
    /\ m.source # move.source
    /\ m.target = move.target

\* Position.__get_disambiguator; legal is self.get_legal_moves()
get_disambiguator(P, legal, move) ==
    LET others == {i \in 1..Len(legal.moves) : Ambiguous(P, move, legal.moves[i])}
        same_rank == \E i \in others :
                        SquareRank(legal.moves[i].source) = SquareRank(move.source)
        same_file == \E i \in others :
                        SquareFile(legal.moves[i].source) = SquareFile(move.source)
    IN  IF same_rank /\ same_file THEN SquareName(move.source)
        ELSE IF same_file THEN Str(SquareRank(move.source))
        ELSE IF same_rank THEN SquareFile(move.source)
        ELSE ""

\* str.upper() on a piece type
UpperPiece(c) ==
    CASE c = "n" -> "N" [] c = "b" -> "B" [] c = "k" -> "K"
      [] c = "r" -> "R" [] c = "q" -> "Q" [] c = "p" -> "P"

\* the text before the check sign
SanBody(P, legal, move, piece, capture, steps) ==
    IF PieceType(piece) = "k" /\ steps = 2 THEN "o-o"
    ELSE IF PieceType(piece) = "k" /\ steps = -2 THEN "o-o-o"
    ELSE (IF PieceType(piece) # "p" THEN UpperPiece(PieceType(piece)) ELSE "")
         \o get_disambiguator(P, legal, move)
         \o (IF capture
             THEN (IF PieceType(piece) = "p" THEN SquareFile(move.source) ELSE "")
                  \o "x"
             ELSE "")
         \o SquareName(move.target)
         \o (IF move.promotion # None THEN "=" \o UpperPiece(move.promotion)
             ELSE "")

\* mate is resulting_position.is_checkmate(), check is resulting_position.is_check()
InfoSan(P, legal, move, piece, enpassant, mate, check) ==
    IF mate.raised \/ legal.raised THEN [san |-> None, raised |-> TRUE]
    ELSE [san |-> SanBody(P, legal, move, piece,
                          P.board[move.target] # None \/ enpassant,
                          SquareX(move.target) - SquareX(move.source))
                   \o (IF mate.value THEN "#" ELSE IF check THEN "+" ELSE "")
                   \o (IF enpassant THEN " (e.p.)" ELSE ""),
          raised |-> FALSE]

\* done is self.copy().make_move(move)
InfoMade(P, legal, move, done, piece) ==
    IF done.raised THEN [san |-> None, raised |-> TRUE]
    ELSE InfoSan(P, legal, move, piece,
                 /\ PieceType(piece) = "p"
                 /\ SquareFile(move.target) # SquareFile(move.source)
                 /\ P.board[move.target] = None,
                 is_checkmate(done.pos, get_legal_moves(done.pos)),
                 is_check(done.pos))

InfoOnCopy(P, legal, move, scratch) ==
    InfoMade(P, legal, move,
             make_move(scratch, get_legal_moves(scratch), move, TRUE),
             P.board[move.source])

\* legal is self.get_legal_moves(); the move is made on self.copy(), which
\* validates it against the legal moves of the copy
get_move_info(P, legal, move) == InfoOnCopy(P, legal, move, Copy(P))

(***************************************************************************)
(* Move.from_uci                                                           *)
(***************************************************************************)
\* ^([a-h][1-8])([a-h][1-8])([rnbq]?)$ matches uci
UciMatches(uci) ==
    /\ Len(uci) \in {4, 5}
    /\ InStr(Char(uci, 1), "abcdefgh") /\ InStr(Char(uci, 2), "12345678")
    /\ InStr(Char(uci, 3), "abcdefgh") /\ InStr(Char(uci, 4), "12345678")
    /\ (Len(uci) = 5 => InStr(Char(uci, 5), "rnbq"))

\* Move.get_null
get_null == Move(from_rank_and_file(1, "a"), from_rank_and_file(1, "a"), None)

\* the move built, or raised when the text matches nothing (match is None)
\* a variant without the special case of the null move
from_uci_NoNull(uci) ==
    IF ~UciMatches(uci) THEN [move |-> None, raised |-> TRUE]
    ELSE [move |-> Move(SquareOf(SubSeq(uci, 1, 2)), SquareOf(SubSeq(uci, 3, 4)),
                        IF Len(uci) = 5 THEN Char(uci, 5) ELSE None),
          raised |-> FALSE]

from_uci(uci) ==
    IF uci = "0000" THEN [move |-> get_null, raised |-> FALSE]
    ELSE IF ~UciMatches(uci) THEN [move |-> None, raised |-> TRUE]
    ELSE [move |-> Move(SquareOf(SubSeq(uci, 1, 2)), SquareOf(SubSeq(uci, 3, 4)),
                        IF Len(uci) = 5 THEN Char(uci, 5) ELSE None),
          raised |-> FALSE]

(***************************************************************************)
(* Square.is_dark / is_light, Position.get_piece_counts and                *)
(* Position.is_insufficient_material                                       *)
(***************************************************************************)
is_dark(sq) == (SquareX(sq) - (SquareY(sq) % 2)) = 0

is_light(sq) == ~is_dark(sq)

\* the count of one piece type among the pieces whose colour is in color
get_piece_counts(P, color, type) ==
    Cardinality({i \in 0..127 : /\ P.board[i] # None
                                /\ InStr(PieceColor(P.board[i]), color)
                                /\ PieceType(P.board[i]) = type})

\* sum(piece_counts.values())
PieceTotal(P) ==
    Cardinality({i \in 0..127 : P.board[i] # None})

\* square.is_light(), as a name
LightOrDark(sq) == IF is_light(sq) THEN "light" ELSE "dark"

\* the loop over the bishops from the k-th on; color is is_light of the
\* bishop seen last, None before the first
RECURSIVE BishopLoop(_, _, _)
BishopLoop(bishops, k, color) ==
    IF k > Len(bishops) THEN [value |-> TRUE, raised |-> FALSE]
    ELSE IF OffBoard(bishops[k]) THEN [value |-> FALSE, raised |-> TRUE]
    ELSE IF color # None /\ color # LightOrDark(bishops[k])
         THEN [value |-> FALSE, raised |-> FALSE]
    ELSE BishopLoop(bishops, k + 1, LightOrDark(bishops[k]))

is_insufficient_material(P) ==
    LET total == PieceTotal(P)
        bishops == SelectSeq(Slots, LAMBDA i : /\ P.board[i] # None
                                               /\ PieceType(P.board[i]) = "b")
    IN  IF total = 2 THEN [value |-> TRUE, raised |-> FALSE]
        ELSE IF total = 3
        THEN [value |-> get_piece_counts(P, "wb", "b") = 1
                        \/ get_piece_counts(P, "wb", "n") = 1,
              raised |-> FALSE]
        ELSE IF total = 2 + get_piece_counts(P, "wb", "b")
                /\ get_piece_counts(P, "w", "b") # 0
                /\ get_piece_counts(P, "b", "b") # 0
        THEN BishopLoop(bishops, 1, None)
        ELSE [value |-> FALSE, raised |-> FALSE]

(***************************************************************************)
(* ZobristHasher.hash_position: the key is the XOR of entries of the       *)
(* random array, each taken at most once; it is modelled as the set of     *)
(* the indices of the entries that are XORed into it                       *)
(***************************************************************************)
\* "pPnNbBrRqQkK".index(piece.symbol)
SymbolIndex(symbol) ==
    (CHOOSE i \in 1..12 : Char("pPnNbBrRqQkK", i) = symbol) - 1

\* a variant that also hashes in the half-move clock
hash_position_WithClock(P) ==
    {64 * SymbolIndex(P.board[sq]) + 8 * SquareY(sq) + SquareX(sq) :
        sq \in {q \in OnBoardSquares : P.board[q] # None}}
    \cup {767 + i : i \in {j \in 1..4 : get_castling_right(P, CASTLING_TYPES[j])}}
    \cup (IF P.ep_file # None /\ get_theoretical_ep_right(P, P.ep_file)
          THEN {772 + FileIndex(P.ep_file)} ELSE {})
    \cup (IF P.turn = "w" THEN {780} ELSE {})
    \cup {781 + P.half_moves}

hash_position(P) ==
    {64 * SymbolIndex(P.board[sq]) + 8 * SquareY(sq) + SquareX(sq) :
        sq \in {q \in OnBoardSquares : P.board[q] # None}}
    \cup {767 + i : i \in {j \in 1..4 : get_castling_right(P, CASTLING_TYPES[j])}}
    \cup (IF P.ep_file # None /\ get_theoretical_ep_right(P, P.ep_file)
          THEN {772 + FileIndex(P.ep_file)} ELSE {})
    \cup (IF P.turn = "w" THEN {780} ELSE {})

(***************************************************************************)
(* GameHeaderBag: the stored headers are the dict __headers in insertion   *)
(* order, each a record [key, value]; game is None or names the bound      *)
(* Position, whose ply is handed to the operators                          *)
(***************************************************************************)
KNOWN_HEADERS ==
    << "Event", "Site", "Date", "Round", "White", "Black", "Result",
       "Annotator", "PlyCount", "TimeControl", "Time", "Termination", "Mode",
       "FEN", "SetUp" >>

\* the dict built by __init__
DefaultHeaders ==
    << [key |-> "Event", value |-> "?"],
       [key |-> "Site", value |-> "?"],
       [key |-> "Date", value |-> "????.??.??"],
       [key |-> "Round", value |-> "?"],
       [key |-> "White", value |-> "?"],
       [key |-> "Black", value |-> "?"],
       [key |-> "Result", value |-> "*"] >>

UpperLetters == "ABCDEFGHIJKLMNOPQRSTUVWXYZ"

LowerLetters == "abcdefghijklmnopqrstuvwxyz"

\* the letters of from, each mapped to the letter of to at the same place
LetterMap(from, to) ==
    [c \in {Char(from, i) : i \in 1..Len(from)} |->
        Char(to, CHOOSE i \in 1..Len(from) : Char(from, i) = c)]

ToLower == LetterMap(UpperLetters, LowerLetters)

ToUpper == LetterMap(LowerLetters, UpperLetters)

\* the character the map gives for c, c itself if the map has none
MapChar(c, map) == IF c \in DOMAIN map THEN map[c] ELSE c

\* str.lower()
RECURSIVE Lower(_)
Lower(s) ==
    IF Len(s) = 0 THEN ""
    ELSE MapChar(Char(s, 1), ToLower) \o Lower(Tail(s))

\* str.upper()
RECURSIVE Upper(_)
Upper(s) ==
    IF Len(s) = 0 THEN ""
    ELSE MapChar(Char(s, 1), ToUpper) \o Upper(Tail(s))

\* str.endswith(suffix)
endswith(s, suffix) ==
    /\ Len(s) >= Len(suffix)
    /\ SubSeq(s, Len(s) - Len(suffix) + 1, Len(s)) = suffix

\* str.isdigit() over ASCII text
isdigit(s) ==
    Len(s) > 0 /\ \A i \in 1..Len(s) : InStr(Char(s, i), "0123456789")

\* the text a pattern ending in $ has to match: $ also matches before a
\* newline that ends the text
DollarStem(s) ==
    IF Len(s) > 0 /\ Char(s, Len(s)) = "\n" THEN SubSeq(s, 1, Len(s) - 1)
    ELSE s

HeaderKeys(headers) == [i \in 1..Len(headers) |-> headers[i].key]

\* the loop of __normalize_key over KNOWN_HEADERS chained with __headers
RECURSIVE NormalizeLoop(_, _, _, _)
NormalizeLoop(chain, key, lowered, i) ==
    IF i > Len(chain) THEN key
    ELSE IF Lower(chain[i]) = lowered THEN chain[i]
    ELSE NormalizeLoop(chain, key, lowered, i + 1)

\* a variant that compares the names as they are written
normalize_key_AsWritten(headers, key) == key

\* __normalize_key for a key that is a string
normalize_key(headers, key) ==
    NormalizeLoop(KNOWN_HEADERS \o HeaderKeys(headers), key, Lower(key), 1)

\* key in self.__headers
Stored(headers, key) == \E i \in 1..Len(headers) : headers[i].key = key

\* self.__headers[key]
StoredValue(headers, key) ==
    headers[CHOOSE i \in 1..Len(headers) : headers[i].key = key].value

\* self.__headers[key] = value: a new key goes last, an old one keeps its place
StoreHeader(headers, key, value) ==
    IF Stored(headers, key)
    THEN [i \in 1..Len(headers) |->
             IF headers[i].key = key THEN [key |-> key, value |-> value]
             ELSE headers[i]]
    ELSE Append(headers, [key |-> key, value |-> value])

\* del self.__headers[key]
RemoveHeader(headers, key) == SelectSeq(headers, LAMBDA h : h.key # key)

\* __contains__ once the key is normalized
ContainsNormal(headers, game, key) ==
    IF game # None /\ key = "PlyCount" THEN TRUE
    ELSE IF key = "SetUp"
    THEN Stored(headers, normalize_key(headers, normalize_key(headers, "FEN")))
    ELSE Stored(headers, normalize_key(headers, key))

contains(headers, game, key) ==
    ContainsNormal(headers, game, normalize_key(headers, key))

\* __getitem__ once the key is normalized
GetNormal(headers, game, game_ply, key) ==
    IF game # None /\ key = "PlyCount"
    THEN [value |-> game_ply, raised |-> FALSE]
    ELSE IF key = "SetUp"
    THEN [value |-> IF contains(headers, game, "FEN") THEN "1" ELSE "0",
          raised |-> FALSE]
    ELSE IF Stored(headers, key)
    THEN [value |-> StoredValue(headers, key), raised |-> FALSE]
    ELSE [value |-> None, raised |-> TRUE]

getitem(headers, game, game_ply, key) ==
    GetNormal(headers, game, game_ply, normalize_key(headers, key))

\* the keys __iter__ yields, in order
iter(headers, game) ==
    SelectSeq(KNOWN_HEADERS, LAMBDA known : contains(headers, game, known))
    \o SelectSeq(HeaderKeys(headers),
                 LAMBDA header : \A i \in 1..Len(KNOWN_HEADERS) :
                                     KNOWN_HEADERS[i] # header)

REQUIRED_HEADERS ==
    {"Event", "Site", "Date", "Round", "White", "Black", "Result"}

\* __delitem__ without the test for the required headers
delitem_NothingRequired(headers, key) ==
    IF ~Stored(headers, normalize_key(headers, key))
    THEN [headers |-> headers, raised |-> TRUE]
    ELSE [headers |-> RemoveHeader(headers, normalize_key(headers, key)),
          raised |-> FALSE]

\* __delitem__ once the key is normalized: a KeyError for a required header
\* and, from the dict, for a key that is not stored
DelNormal(headers, k) ==
    IF k \in REQUIRED_HEADERS \/ ~Stored(headers, k)
    THEN [headers |-> headers, raised |-> TRUE]
    ELSE [headers |-> RemoveHeader(headers, k), raised |-> FALSE]

delitem(headers, key) == DelNormal(headers, normalize_key(headers, key))

\* (\?{4}|[0-9]{4})
IsYearText(s) == s = "????" \/ isdigit(s)

\* (\?\?|[0-9]{2})
IsPartText(s) == s = "??" \/ isdigit(s)

\* __date_regex matches the text
DateMatches(stem) ==
    \/ Len(stem) = 4 /\ IsYearText(stem)
    \/ /\ Len(stem) = 10
       /\ IsYearText(SubSeq(stem, 1, 4))
       /\ Char(stem, 5) = "." /\ IsPartText(SubSeq(stem, 6, 7))
       /\ Char(stem, 8) = "." /\ IsPartText(SubSeq(stem, 9, 10))

DaysInMonth(year, month) ==
    IF month = 2
    THEN (IF year % 4 = 0 /\ (year % 100 # 0 \/ year % 400 = 0)
          THEN 29 ELSE 28)
    ELSE IF month \in {4, 6, 9, 11} THEN 30 ELSE 31

\* datetime.date(year, month, day) raises
DateRaises(year, month, day) ==
    ~(/\ year \in 1..9999
      /\ month \in 1..12
      /\ day \in 1..DaysInMonth(year, month))

\* the Date branch of __setitem__, stem the text the pattern has to match
DateChecked(value, stem) ==
    IF ~DateMatches(stem) THEN [value |-> value, raised |-> TRUE]
    ELSE IF Len(stem) = 4
    THEN [value |-> stem \o ".??.??", raised |-> FALSE]
    ELSE [value |-> value,
          raised |->
              DateRaises(IF SubSeq(stem, 1, 4) = "????" THEN 2000
                         ELSE ParseInt(SubSeq(stem, 1, 4)),
                         IF SubSeq(stem, 6, 7) = "??" THEN 10
                         ELSE ParseInt(SubSeq(stem, 6, 7)),
                         IF SubSeq(stem, 9, 10) = "??" THEN 1
                         ELSE ParseInt(SubSeq(stem, 9, 10)))]

\* __round_part_regex matches the part
RoundPartMatches(stem) == stem = "?" \/ stem = "-" \/ isdigit(stem)

RoundChecked(value, parts) ==
    [value |-> value,
     raised |-> \E i \in 1..Len(parts) :
                    ~RoundPartMatches(DollarStem(parts[i]))]

RESULTS == {"1-0", "0-1", "1/2-1/2", "*"}

\* the Result branch of __setitem__
ResultChecked(value) == [value |-> value, raised |-> value \notin RESULTS]

PlyCountChecked(value) ==
    IF isdigit(value) THEN [value |-> Str(ParseInt(value)), raised |-> FALSE]
    ELSE [value |-> value, raised |-> TRUE]

\* __time_regex matches and the three numbers are in range
TimeChecked(value, stem) ==
    [value |-> value,
     raised |->
         ~(/\ Len(stem) = 8
           /\ isdigit(SubSeq(stem, 1, 2)) /\ Char(stem, 3) = ":"
           /\ isdigit(SubSeq(stem, 4, 5)) /\ Char(stem, 6) = ":"
           /\ isdigit(SubSeq(stem, 7, 8))
           /\ ParseInt(SubSeq(stem, 1, 2)) < 24
           /\ ParseInt(SubSeq(stem, 4, 5)) < 60
           /\ ParseInt(SubSeq(stem, 7, 8)) < 60)]

TERMINATIONS ==
    {"abandoned", "adjudication", "death", "emergency", "normal",
     "rules infraction", "time forfeit", "unterminated"}

\* the chess.com endings, value in lower case
TerminationWord(value) ==
    IF endswith(value, " won by resignation") THEN "normal"
    ELSE IF endswith(value, " drawn by repetition") THEN "normal"
    ELSE IF endswith(value, " won by checkmate") THEN "normal"
    ELSE IF endswith(value, " game abandoned") THEN "abandoned"
    ELSE value

TerminationChecked(word) ==
    [value |-> word, raised |-> word \notin TERMINATIONS]

ModeChecked(value) ==
    [value |-> value, raised |-> value \notin {"OTB", "ICS"}]

\* the validation of __setitem__ for every key but FEN: the value to store
\* and whether the branch raised
Checked(key, value) ==
    IF key = "Date" THEN DateChecked(value, DollarStem(value))
    ELSE IF key = "Round" THEN RoundChecked(value, Split(value, "."))
    ELSE IF key = "Result" THEN ResultChecked(value)
    ELSE IF key = "PlyCount" THEN PlyCountChecked(value)
    ELSE IF key = "Time" THEN TimeChecked(value, DollarStem(value))
    ELSE IF key = "Termination"
    THEN TerminationChecked(TerminationWord(Lower(value)))
    ELSE IF key = "Mode" THEN ModeChecked(Upper(value))
    ELSE [value |-> value, raised |-> FALSE]

\* the end of __setitem__ for every key but FEN
StoreChecked(headers, key, checked) ==
    IF checked.raised THEN [headers |-> headers, raised |-> TRUE]
    ELSE [headers |-> StoreHeader(headers, key, checked.value),
          raised |-> FALSE]

\* del self["SetUp"] after del self["FEN"]
DelFenSetUp(deleted) ==
    IF deleted.raised THEN deleted ELSE delitem(deleted.headers, "SetUp")

\* the FEN branch storing every value, the start position too
FenChecked_StoreStart(headers, game, game_ply, value) ==
    IF game # None /\ game_ply > 0
    THEN [headers |-> headers, raised |-> TRUE]
    ELSE [headers |-> StoreHeader(StoreHeader(headers, "SetUp", "1"),
                                  "FEN", value),
          raised |-> FALSE]

\* the FEN branch of __setitem__, value being Position(value).fen;
\* self["SetUp"] = "1" stores the value under no validation
FenChecked(headers, game, game_ply, value) ==
    IF value = START_FEN /\ ~contains(headers, game, "FEN")
    THEN [headers |-> headers, raised |-> FALSE]
    ELSE IF /\ value # START_FEN
            /\ contains(headers, game, "FEN")
            /\ getitem(headers, game, game_ply, "FEN").value = value
    THEN [headers |-> headers, raised |-> FALSE]
    ELSE IF game # None /\ game_ply > 0
    THEN [headers |-> headers, raised |-> TRUE]
    ELSE IF value = START_FEN THEN DelFenSetUp(delitem(headers, "FEN"))
    ELSE [headers |-> StoreHeader(StoreHeader(headers, "SetUp", "1"),
                                  "FEN", value),
          raised |-> FALSE]

\* value = Position(value).fen, made being Position(value)
FenParsed(headers, game, game_ply, made) ==
    IF made.raised THEN [headers |-> headers, raised |-> TRUE]
    ELSE FenChecked(headers, game, game_ply, FenOf(made.pos))

\* __setitem__ once the key is normalized
SetNormal(headers, game, game_ply, key, value) ==
    IF key = "FEN"
    THEN FenParsed(headers, game, game_ply, NewPosition(value))
    ELSE StoreChecked(headers, key, Checked(key, value))

\* __setitem__: the headers after the call and whether it raised
setitem(headers, game, game_ply, key, value) ==
    SetNormal(headers, game, game_ply, normalize_key(headers, key), value)

(***************************************************************************)
(* EcoFileParser: a dict is a record [none, items], none standing for the  *)
(* value None and items holding the entries in insertion order             *)
(***************************************************************************)
ECO_STATE == 0

NAME_STATE == 1

MOVETEXT_STATE == 2

\* dict() if create else None
NewDict(create) == [none |-> ~create, items |-> <<>>]

\* str.strip() of blanks
RECURSIVE strip(_)
strip(s) ==
    IF Len(s) = 0 THEN s
    ELSE IF Char(s, 1) = " " THEN strip(Tail(s))
    ELSE IF Char(s, Len(s)) = " " THEN strip(SubSeq(s, 1, Len(s) - 1))
    ELSE s

\* self.chunks += line.split(), line after line
RECURSIVE tokenize(_)
tokenize(lines) ==
    IF Len(lines) = 0 THEN <<>>
    ELSE IF strip(lines[1]) = "" \/ Char(strip(lines[1]), 1) = "#"
    THEN tokenize(Tail(lines))
    ELSE SplitBlanks(strip(lines[1])) \o tokenize(Tail(lines))

\* chunk[0:3]
EcoOf(chunk) == SubSeq(chunk, 1, IF Len(chunk) < 3 THEN Len(chunk) ELSE 3)

\* the chunk without a quote at its start
WithoutOpeningQuote(chunk) ==
    IF Len(chunk) > 0 /\ Char(chunk, 1) = "\"" THEN Tail(chunk) ELSE chunk

\* the chunk without a quote at its end
WithoutClosingQuote(chunk) ==
    IF endswith(chunk, "\"") THEN SubSeq(chunk, 1, Len(chunk) - 1) ELSE chunk

\* the length of the match of [0-9]+ at the start of the chunk
RECURSIVE DigitRun(_, _)
DigitRun(chunk, n) ==
    IF n < Len(chunk) /\ InStr(Char(chunk, n + 1), "0123456789")
    THEN DigitRun(chunk, n + 1)
    ELSE n

\* group 2 of __move_regex, n being the number of digits the chunk starts with
MoveGroup(chunk, n) ==
    IF n > 0 /\ n < Len(chunk) /\ Char(chunk, n + 1) = "."
    THEN SubSeq(chunk, n + 2, Len(chunk))
    ELSE chunk

\* eco in self.lookup
InLookup(dict, eco) == \E i \in 1..Len(dict.items) : dict.items[i].eco = eco

\* the assignment to self.lookup that overwrites an entry
LookupStored_Overwriting(dict, eco, name, fen) ==
    IF dict.none THEN dict
    ELSE IF InLookup(dict, eco)
    THEN [dict EXCEPT !.items =
             [i \in 1..Len(dict.items) |->
                 IF dict.items[i].eco = eco
                 THEN [eco |-> eco, name |-> name, fen |-> fen]
                 ELSE dict.items[i]]]
    ELSE [dict EXCEPT !.items =
             Append(dict.items, [eco |-> eco, name |-> name, fen |-> fen])]

\* self.lookup after the closing chunk of a record
LookupStored(dict, eco, name, fen) ==
    IF dict.none \/ InLookup(dict, eco) THEN dict
    ELSE [dict EXCEPT !.items =
             Append(dict.items, [eco |-> eco, name |-> name, fen |-> fen])]

\* self.classification after the closing chunk of a record: the entry of a
\* hash is replaced
ClassificationStored(dict, hash, eco, name, fen) ==
    IF dict.none THEN dict
    ELSE IF \E i \in 1..Len(dict.items) : dict.items[i].hash = hash
    THEN [dict EXCEPT !.items =
             [i \in 1..Len(dict.items) |->
                 IF dict.items[i].hash = hash
                 THEN [hash |-> hash, eco |-> eco, name |-> name, fen |-> fen]
                 ELSE dict.items[i]]]
    ELSE [dict EXCEPT !.items =
             Append(dict.items,
                    [hash |-> hash, eco |-> eco, name |-> name, fen |-> fen])]

(***************************************************************************)
(* The inputs of the model                                                 *)
(***************************************************************************)
\* the number of make_move calls made on a position built from an opening
\* position, from a small position, and from the king-and-rook position
FuelOpening == 1

FuelSmall == 2

FuelCastle == 3

\* the position of the en-passant test of the specification
EP_FEN == "rnbqkbnr/ppp1pppp/8/8/3pP3/8/PPPP1PPP/RNBQKBNR w KQkq d6 0 3"

\* black is about to advance the d-pawn past the white e-pawn
EP_PLAY_FEN == "4k3/3p4/8/4P3/8/8/2PP4/4K3 b - - 0 1"

CASTLE_FEN == "k7/p7/P7/8/8/7p/7P/4K2R w K - 0 1"

\* the black rook attacks d1, the square the king passes on the queen side
CASTLE_ATTACKED_FEN == "3rk3/8/8/8/8/8/8/R3K2R w KQ - 0 1"

BLACK_CASTLE_FEN == "r3k2r/8/8/8/8/8/8/4K3 b kq - 0 1"

\* the right K is set although the white king stands on d1
CASTLE_OFF_HOME_FEN == "4k3/8/8/8/8/8/8/3K2NR w K - 0 1"

PROMOTION_FEN == "8/P6k/8/8/8/8/8/K7 w - - 0 1"

\* the white bishop is pinned on the e-file
PIN_FEN == "4r2k/8/8/8/8/8/4B3/4K3 w - - 0 1"

\* the last rank holds nine files
LONG_ROW_FEN == "4k3/8/8/8/8/8/8/4K3P w - - 0 1"

\* the last rank holds seven files
SHORT_ROW_FEN == "4k3/8/8/8/8/8/8/4K2 w - - 0 1"

SEVEN_RANKS_FEN == "4k3/8/8/8/8/8/4K3 w - - 0 1"

NINE_RANKS_FEN == "4k3/8/8/8/8/8/8/8/4K3 w - - 0 1"

DOUBLE_DIGIT_FEN == "4k3/8/8/8/8/8/8/4K21 w - - 0 1"

FIVE_FIELDS_FEN == "4k3/8/8/8/8/8/8/4K3 w - - 0"

BAD_TURN_FEN == "4k3/8/8/8/8/8/8/4K3 x - - 0 1"

\* black, to move, is not in check and has no legal move
STALEMATE_FEN == "7k/5Q2/6K1/8/8/8/8/8 b - - 0 1"

\* the kings alone
BARE_KINGS_FEN == "4k3/8/8/8/8/8/8/4K3 w - - 0 1"

\* a bishop each: c1 is a dark square, c8 a light one
BISHOPS_OPPOSITE_FEN == "2b1k3/8/8/8/8/8/8/2B1K3 w - - 0 1"

\* a bishop each: a1 and c3 are both dark squares
BISHOPS_SAME_FEN == "4k3/8/8/8/8/2b5/8/B3K3 w - - 0 1"

\* a white pawn on the last rank
LAST_RANK_PAWN_FEN == "P3k3/8/8/8/8/8/8/4K3 w - - 0 1"

\* Black has just played d7-d5: the en-passant file is d, a white pawn stands
\* on c2 and the white king behind d3, as after 1.d4 a6 2.Kd2 a5 3.e4 a4 4.e5 d5
KING_BEHIND_FEN == "4k3/8/8/3pP3/8/8/2PK4/8 w - d6 0 5"

\* the texts played from the start position: the mate in four moves, and
\* the same without the third move of each side
SanScripts ==
    << <<"e4", "e5", "Qh5", "Nc6", "Bc4", "Nf6", "Qxf7#">>,
       <<"e4", "e5", "Qh5", "Nc6", "Qxf7#">> >>

FenInputs ==
    << [fen |-> START_FEN, fuel |-> 1],
       [fen |-> STALEMATE_FEN, fuel |-> FuelOpening],
       [fen |-> BARE_KINGS_FEN, fuel |-> 0],
       [fen |-> BISHOPS_OPPOSITE_FEN, fuel |-> 0],
       [fen |-> BISHOPS_SAME_FEN, fuel |-> 0],
       [fen |-> EP_FEN, fuel |-> 1],
       [fen |-> EP_PLAY_FEN, fuel |-> FuelSmall],
       [fen |-> CASTLE_FEN, fuel |-> FuelCastle],
       [fen |-> CASTLE_ATTACKED_FEN, fuel |-> FuelOpening],
       [fen |-> BLACK_CASTLE_FEN, fuel |-> FuelOpening],
       [fen |-> CASTLE_OFF_HOME_FEN, fuel |-> FuelOpening],
       [fen |-> PROMOTION_FEN, fuel |-> FuelSmall],
       [fen |-> PIN_FEN, fuel |-> FuelOpening],
       [fen |-> LONG_ROW_FEN, fuel |-> FuelOpening],
       [fen |-> SHORT_ROW_FEN, fuel |-> FuelOpening],
       [fen |-> SEVEN_RANKS_FEN, fuel |-> FuelOpening],
       [fen |-> NINE_RANKS_FEN, fuel |-> FuelOpening],
       [fen |-> DOUBLE_DIGIT_FEN, fuel |-> FuelOpening],
       [fen |-> FIVE_FIELDS_FEN, fuel |-> FuelOpening],
       [fen |-> BAD_TURN_FEN, fuel |-> FuelOpening],
       [fen |-> KING_BEHIND_FEN, fuel |-> 1],
       [fen |-> LAST_RANK_PAWN_FEN, fuel |-> 0] >>

\* moves handed to make_move besides the pseudo-legal ones: the null move, a
\* castling move, a pawn jump and a promotion without its piece
OtherMoves ==
    { Move(from_rank_and_file(1, "a"), from_rank_and_file(1, "a"), None),
      Move(from_rank_and_file(1, "e"), from_rank_and_file(1, "g"), None),
      Move(from_rank_and_file(2, "e"), from_rank_and_file(5, "e"), None),
      Move(from_rank_and_file(7, "a"), from_rank_and_file(8, "a"), None) }

\* the texts handed to get_move_from_san
SanInputs ==
    { "O-O", "O-O-O", "e4", "Nf3", "Ke2", "Kd2+", "exd6", "a8=Q", "a8",
      "Rh2", "Zz" }

SeqToSet(q) == {q[i] : i \in 1..Len(q)}

(***************************************************************************)
(* The state machine: a Position object and the calls made on it           *)
(***************************************************************************)
\* no GameHeaderBag has been made
NoBag == bag_headers = <<>> /\ bag_game = None

\* Chess.__init__: no game, no board, the local player white
NO_GAME == -1

\* self.draggedSquare = None
NoSquare == -1

NewChess ==
    [game |-> NO_GAME, board |-> FALSE, white |-> TRUE, pre |-> None,
     ply |-> 0, draggedSquare |-> NoSquare]

\* no plugin object has received anything
NoPlugin == plugin = NewChess

\* no EcoFileParser has been made
NoParser ==
    /\ chunks = <<>>
    /\ current_state = ECO_STATE
    /\ current_eco = None
    /\ current_name = None
    /\ lookup = NewDict(FALSE)
    /\ classification = NewDict(FALSE)

Cur ==
    [board |-> board, turn |-> turn, castling |-> castling,
     ep_file |-> ep_file, half_moves |-> half_moves, ply |-> ply]

\* the object after Position(fen), for each fen of the inputs
Init ==
    \E i \in 1..Len(FenInputs) :
        LET made == NewPosition(FenInputs[i].fen)
        IN  /\ board = made.pos.board
            /\ turn = made.pos.turn
            /\ castling = made.pos.castling
            /\ ep_file = made.pos.ep_file
            /\ half_moves = made.pos.half_moves
            /\ ply = made.pos.ply
            /\ fuel = FenInputs[i].fuel
            /\ last = [op |-> "Position", fen |-> FenInputs[i].fen,
                       raised |-> made.raised]
            /\ NoBag
            /\ NoParser
            /\ NoPlugin

\* position.make_move(move), on an object whose construction succeeded
MakeMove(move, legal) ==
    /\ fuel > 0
    /\ ~(last.op = "Position" /\ last.raised)
    /\ LET done == make_move(Cur, legal, move, TRUE)
       IN  /\ board' = done.pos.board
           /\ turn' = done.pos.turn
           /\ castling' = done.pos.castling
           /\ ep_file' = done.pos.ep_file
           /\ half_moves' = done.pos.half_moves
           /\ ply' = done.pos.ply
           /\ last' = [op |-> "make_move", move |-> move, before |-> Cur,
                       raised |-> done.raised]
    /\ fuel' = fuel - 1
    /\ UNCHANGED <<bag_headers, bag_game, plugin, chunks, current_state, current_eco,
                   current_name, lookup, classification>>

\* the moves tried on the current position
InputMoves == SeqToSet(get_pseudo_legal_moves(Cur).moves) \cup OtherMoves

MakeMoves ==
    /\ fuel > 0
    /\ LET legal == get_legal_moves(Cur)
       IN  \E move \in InputMoves : MakeMove(move, legal)

\* position.get_move_info(move) and position.make_move(move), for got the
\* result of position.get_move_from_san
MoveWithInfo(done, san) ==
    [pos |-> done.pos, info |-> san, raised |-> done.raised]

InfoAndMove(P, legal, got, info) ==
    IF got.raised \/ info.raised
    THEN [pos |-> P, info |-> None, raised |-> TRUE]
    ELSE MoveWithInfo(make_move(P, legal, got.move, TRUE), info.san)

SanCall(P, legal, got) ==
    InfoAndMove(P, legal, got,
                IF got.raised THEN [san |-> None, raised |-> TRUE]
                ELSE get_move_info(P, legal, got.move))

\* the object and the record of the call, once the call has returned done
SanPlayed(script, step, done) ==
    /\ board' = done.pos.board
    /\ turn' = done.pos.turn
    /\ castling' = done.pos.castling
    /\ ep_file' = done.pos.ep_file
    /\ half_moves' = done.pos.half_moves
    /\ ply' = done.pos.ply
    /\ last' = [op |-> "san", script |-> script, step |-> step,
                san |-> SanScripts[script][step], info |-> done.info,
                raised |-> done.raised]
    /\ fuel' = 0
    /\ UNCHANGED <<bag_headers, bag_game, plugin, chunks, current_state, current_eco,
                   current_name, lookup, classification>>

\* position.make_move(position.get_move_from_san(san)) for the next text of
\* a script, after position.get_move_info of the move; the scripts start on
\* the start position and no other call is made on the object meanwhile
PlaySan(script, step, legal) ==
    /\ step <= Len(SanScripts[script])
    /\ SanPlayed(script, step,
                 SanCall(Cur, legal,
                         get_move_from_san(Cur, legal, SanScripts[script][step])))

PlaySanNext(legal) ==
    \/ /\ last.op = "Position" /\ ~last.raised /\ last.fen = START_FEN
       /\ \E script \in 1..Len(SanScripts) : PlaySan(script, 1, legal)
    \/ /\ last.op = "san" /\ ~last.raised
       /\ PlaySan(last.script, last.step + 1, legal)

PlaySans == PlaySanNext(get_legal_moves(Cur))

Next == MakeMoves \/ PlaySans

Spec == Init /\ [][Next]_vars

(***************************************************************************)
(* The state machine of a GameHeaderBag: the bag, the Position it may be   *)
(* bound to and the calls made on the two                                  *)
(***************************************************************************)
\* the number of calls made on a bag and its game
MaxBagOps == 2

\* the pairs handed to bag[key] = value
BagAssignments ==
    { <<"Date", "2024.13.40">>, <<"Date", "2024.??.??">>,
      <<"Date", "2024">>, <<"Date", "2024.02.29\n">>,
      <<"date", "2023.02.28">>,
      <<"Result", "1-0">>, <<"Result", "0-1">>, <<"Result", "1/2-1/2">>,
      <<"Result", "*">>, <<"Result", "win">>,
      <<"FEN", START_FEN>>, <<"FEN", BARE_KINGS_FEN>>,
      <<"FEN", EP_PLAY_FEN>>, <<"FEN", "8/8 w">>,
      <<"SetUp", "1">>, <<"annOTator", "Alekhine">>,
      <<"Foo", "a">>, <<"FOO", "b">> }

\* the keys handed to del bag[key]
BagDeletions ==
    {"Event", "rESULT", "date", "FEN", "SetUp", "Annotator", "fOO"}

\* the moves made on the bound Position
BagGameMoves == {"e2e4", "e7e5"}

PositionIs(pos) ==
    /\ board = pos.board
    /\ turn = pos.turn
    /\ castling = pos.castling
    /\ ep_file = pos.ep_file
    /\ half_moves = pos.half_moves
    /\ ply = pos.ply

PositionBecomes(pos) ==
    /\ board' = pos.board
    /\ turn' = pos.turn
    /\ castling' = pos.castling
    /\ ep_file' = pos.ep_file
    /\ half_moves' = pos.half_moves
    /\ ply' = pos.ply

\* GameHeaderBag() and GameHeaderBag(Position())
BagInit ==
    /\ bag_headers = DefaultHeaders
    /\ bag_game \in {None, "Position"}
    /\ PositionIs(IF bag_game = None THEN Blank ELSE StartPosition)
    /\ fuel = MaxBagOps
    /\ last = [op |-> "GameHeaderBag", raised |-> FALSE]
    /\ NoParser
    /\ NoPlugin

BagCalled(op, key, value, done) ==
    /\ bag_headers' = done.headers
    /\ last' = [op |-> op, key |-> key, value |-> value,
                before |-> bag_headers, raised |-> done.raised]
    /\ fuel' = fuel - 1
    /\ UNCHANGED <<board, turn, castling, ep_file, half_moves, ply, bag_game, plugin,
                   chunks, current_state, current_eco, current_name, lookup,
                   classification>>

\* bag[key] = value
SetItems ==
    /\ fuel > 0
    /\ \E a \in BagAssignments :
           BagCalled("setitem", a[1], a[2],
                     setitem(bag_headers, bag_game, ply, a[1], a[2]))

\* del bag[key]
DelItems ==
    /\ fuel > 0
    /\ \E key \in BagDeletions :
           BagCalled("delitem", key, None, delitem(bag_headers, key))

GameMoved(uci, done) ==
    /\ PositionBecomes(done.pos)
    /\ last' = [op |-> "make_move", uci |-> uci, raised |-> done.raised]
    /\ fuel' = fuel - 1
    /\ UNCHANGED <<bag_headers, bag_game, plugin, chunks, current_state, current_eco,
                   current_name, lookup, classification>>

\* game.make_move(Move.from_uci(uci)) on the bound Position
GameMoves ==
    /\ fuel > 0
    /\ bag_game # None
    /\ \E uci \in BagGameMoves :
           GameMoved(uci, make_move(Cur, get_legal_moves(Cur),
                                    from_uci(uci).move, TRUE))

BagNext == SetItems \/ DelItems \/ GameMoves

BagSpec == BagInit /\ [][BagNext]_vars

(***************************************************************************)
(* The calls on a GameHeaderBag that touch the FEN and SetUp headers       *)
(***************************************************************************)
\* the number of calls made on the bag
MaxFenOps == 3

\* the start position with an en-passant square nobody can capture on
START_EP_FEN == "rnbqkbnr/pppppppp/8/8/8/8/PPPPPPPP/RNBQKBNR w KQkq e6 0 1"

\* white has just played e2-e4 and no black pawn stands beside e4
EP_UNUSED_FEN == "4k3/8/8/8/4P3/8/8/4K3 b - e3 0 1"

\* the pairs handed to bag[key] = value
FenAssignments ==
    { <<"FEN", START_FEN>>, <<"fen", START_EP_FEN>>,
      <<"FEN", BARE_KINGS_FEN>>, <<"Fen", EP_UNUSED_FEN>>,
      <<"FEN", LONG_ROW_FEN>>, <<"FEN", "8/8 w">>, <<"SetUp", "1">> }

\* the keys handed to del bag[key]
FenDeletions == {"FEN", "SetUp"}

\* GameHeaderBag() and GameHeaderBag(Position())
FenBagInit ==
    /\ bag_headers = DefaultHeaders
    /\ bag_game \in {None, "Position"}
    /\ PositionIs(IF bag_game = None THEN Blank ELSE StartPosition)
    /\ fuel = MaxFenOps
    /\ last = [op |-> "GameHeaderBag", raised |-> FALSE]
    /\ NoParser
    /\ NoPlugin

\* bag["FEN"] = value, bag["SetUp"] = value
SetFens ==
    /\ fuel > 0
    /\ \E a \in FenAssignments :
           BagCalled("setitem", a[1], a[2],
                     setitem(bag_headers, bag_game, ply, a[1], a[2]))

\* del bag["FEN"], del bag["SetUp"]
DelFens ==
    /\ fuel > 0
    /\ \E key \in FenDeletions :
           BagCalled("delitem", key, None, delitem(bag_headers, key))

FenBagNext == SetFens \/ DelFens

FenBagSpec == FenBagInit /\ [][FenBagNext]_vars

(***************************************************************************)
(* The state machine of an EcoFileParser: the chunks of a file and         *)
(* read_all, one read_chunk after the other                                *)
(***************************************************************************)
\* the number of records of a file
MaxRecords == 2

\* the records of the files, each with its code, its name and its moves
EcoRecords ==
    << [text |-> "C20 \"King's Pawn\" 1.e4 e5 *",
        eco |-> "C20", name |-> "King's Pawn",
        moves |-> <<"e2e4", "e7e5">>],
       [text |-> "C20  \"King's Knight Opening\" 1. e4 e5 2. Nf3 *",
        eco |-> "C20", name |-> "King's Knight Opening",
        moves |-> <<"e2e4", "e7e5", "g1f3">>],
       [text |-> "A00 \"Start\" *",
        eco |-> "A00", name |-> "Start", moves |-> <<>>],
       [text |-> "C50 \"Giuoco Piano\" 1.e4 e5 2.Nf3 Nc6 3.Bc4 Bc5 4.O-O *",
        eco |-> "C50", name |-> "Giuoco Piano",
        moves |-> <<"e2e4", "e7e5", "g1f3", "b8c6", "f1c4", "f8c5",
                    "e1g1">>] >>

\* the files: a comment, an empty line and up to MaxRecords records
EcoStreams ==
    UNION {[1..n -> 1..Len(EcoRecords)] : n \in 0..MaxRecords}

EcoLines(stream) ==
    <<"# openings", "">> \o [i \in 1..Len(stream) |-> EcoRecords[stream[i]].text]

\* EcoFileParser(create_classification, create_lookup) and tokenize
EcoInit ==
    \E stream \in EcoStreams, create_classification \in BOOLEAN,
       create_lookup \in BOOLEAN :
        /\ classification = NewDict(create_classification)
        /\ lookup = NewDict(create_lookup)
        /\ current_state = ECO_STATE
        /\ current_eco = None
        /\ current_name = None
        /\ PositionIs(Blank)
        /\ chunks = tokenize(EcoLines(stream))
        /\ fuel = 0
        /\ last = [op |-> "tokenize", stream |-> stream, raised |-> FALSE]
        /\ NoBag
        /\ NoPlugin

\* read_all calls read_chunk while chunks are left; an error ends it
CanRead == Len(chunks) > 0 /\ ~last.raised

\* chunk = self.chunks.popleft(), and the record of the call
ChunkRead(raised) ==
    /\ chunks' = Tail(chunks)
    /\ last' = [op |-> "read_chunk", stream |-> last.stream,
                chunk |-> chunks[1], raised |-> raised]
    /\ UNCHANGED <<fuel, bag_headers, bag_game, plugin>>

\* neither table is built
ReadNothing ==
    /\ CanRead
    /\ classification.none /\ lookup.none
    /\ ChunkRead(FALSE)
    /\ UNCHANGED <<board, turn, castling, ep_file, half_moves, ply,
                   current_state, current_eco, current_name, lookup,
                   classification>>

ReadEco ==
    /\ CanRead
    /\ ~(classification.none /\ lookup.none)
    /\ current_state = ECO_STATE
    /\ current_eco' = EcoOf(chunks[1])
    /\ current_name' = ""
    /\ PositionBecomes(StartPosition)
    /\ current_state' = NAME_STATE
    /\ ChunkRead(FALSE)
    /\ UNCHANGED <<lookup, classification>>

NameRead(chunk) ==
    /\ current_state' = IF endswith(chunk, "\"") THEN MOVETEXT_STATE
                        ELSE NAME_STATE
    /\ current_name' = strip(current_name \o " " \o WithoutClosingQuote(chunk))

ReadName ==
    /\ CanRead
    /\ ~(classification.none /\ lookup.none)
    /\ current_state = NAME_STATE
    /\ NameRead(WithoutOpeningQuote(chunks[1]))
    /\ ChunkRead(FALSE)
    /\ UNCHANGED <<board, turn, castling, ep_file, half_moves, ply,
                   current_eco, lookup, classification>>

\* the chunk "*" closes the record
ReadEnd ==
    /\ CanRead
    /\ ~(classification.none /\ lookup.none)
    /\ current_state = MOVETEXT_STATE
    /\ chunks[1] = "*"
    /\ current_state' = ECO_STATE
    /\ classification' =
           ClassificationStored(classification, hash_position(Cur),
                                current_eco, current_name, FenOf(Cur))
    /\ lookup' = LookupStored(lookup, current_eco, current_name, FenOf(Cur))
    /\ ChunkRead(FALSE)
    /\ UNCHANGED <<board, turn, castling, ep_file, half_moves, ply,
                   current_eco, current_name>>

MoveRead(done) ==
    /\ PositionBecomes(done.pos)
    /\ ChunkRead(done.raised)

\* make_move(get_move_from_san(text)) on the current position
MoveCall(text, legal, got) ==
    IF got.raised THEN MoveRead([pos |-> Cur, raised |-> TRUE])
    ELSE MoveRead(make_move(Cur, legal, got.move, TRUE))

MoveText(text, legal) ==
    IF (~classification.none \/ ~InLookup(lookup, current_eco)) /\ text # ""
    THEN MoveCall(text, legal, get_move_from_san(Cur, legal, text))
    ELSE MoveRead([pos |-> Cur, raised |-> FALSE])

\* any other chunk of the movetext
ReadMove ==
    /\ CanRead
    /\ ~(classification.none /\ lookup.none)
    /\ current_state = MOVETEXT_STATE
    /\ chunks[1] # "*"
    /\ MoveText(MoveGroup(chunks[1], DigitRun(chunks[1], 0)),
                get_legal_moves(Cur))
    /\ UNCHANGED <<current_state, current_eco, current_name, lookup,
                   classification>>

EcoNext == ReadNothing \/ ReadEco \/ ReadName \/ ReadEnd \/ ReadMove

EcoSpec == EcoInit /\ [][EcoNext]_vars

(***************************************************************************)
(* read_all on files whose records are not all complete                    *)
(***************************************************************************)
\* the number of lines of a file
MaxLines == 2

\* the lines of the files: a record, a name closed by a quote standing
\* alone, a name opened by one, an empty name, a name in doubled quotes, and
\* records that end after the code, inside the name and inside the movetext
TokenTexts ==
    << "A00 \"Start\" *",
       "A01 \"Open \" *",
       "A02 \" Open\" *",
       "A03 \"\" *",
       "A04 \"\"Polish\"\" 1.b4 *",
       "A05",
       "A06 \"King's Pawn",
       "A07 \"Start\" 1.e4" >>

TokenStreams ==
    UNION {[1..n -> 1..Len(TokenTexts)] : n \in 0..MaxLines}

TokenLines(stream) == [i \in 1..Len(stream) |-> TokenTexts[stream[i]]]

\* EcoFileParser(create_classification, create_lookup) and tokenize
TokenInit ==
    \E stream \in TokenStreams, create_classification \in BOOLEAN,
       create_lookup \in BOOLEAN :
        /\ classification = NewDict(create_classification)
        /\ lookup = NewDict(create_lookup)
        /\ current_state = ECO_STATE
        /\ current_eco = None
        /\ current_name = None
        /\ PositionIs(Blank)
        /\ chunks = tokenize(TokenLines(stream))
        /\ fuel = 0
        /\ last = [op |-> "tokenize", stream |-> stream, raised |-> FALSE]
        /\ NoBag
        /\ NoPlugin

\* the end of read_all: no chunk is left and the state is asserted
ReadAllEnd ==
    /\ Len(chunks) = 0
    /\ last.op # "read_all"
    /\ ~last.raised
    /\ last' = [op |-> "read_all", stream |-> last.stream,
                raised |-> current_state # ECO_STATE]
    /\ UNCHANGED <<board, turn, castling, ep_file, half_moves, ply, fuel,
                   bag_headers, bag_game, plugin, chunks, current_state, current_eco,
                   current_name, lookup, classification>>

TokenNext == EcoNext \/ ReadAllEnd

TokenSpec == TokenInit /\ [][TokenNext]_vars

(***************************************************************************)
(* The Chess plugin: the packets a friend sends, the menu entry that       *)
(* starts a game and the mouse on the board. The Position variables are    *)
(* board.position, plugin.ply is board.ply, plugin.board tells whether     *)
(* there is a board. The window title is not modelled.                     *)
(***************************************************************************)
\* the friend numbers packets come from
Friends == {0, 1}

\* the data of the packets
PacketInputs == {"new", "yes", "no", "e2e4", "e7e5"}

\* the squares the mouse is pressed and released on
PressInputs == {from_rank_and_file(2, "e"), from_rank_and_file(7, "e")}

ReleaseInputs == {from_rank_and_file(4, "e"), from_rank_and_file(5, "e")}

\* ord(c) of a digit or a small letter
Ord(c) ==
    IF InStr(c, "0123456789") THEN 48 + DigitValue(c)
    ELSE 96 + (CHOOSE i \in 1..Len(LowerLetters) : Char(LowerLetters, i) = c)

\* "abcdefgh"[i] and "12345678"[i]: an index below zero counts from the end
IndexRaises(i) == i < -8 \/ i > 7

Indexed(i) == IF i < 0 THEN i + 8 ELSE i

\* Square.from_x_and_y(ord(data[i]) - ord('a'), ord(data[i + 1]) - ord('1'))
PacketSquare(data, i) ==
    IF Len(data) < i + 2 THEN [square |-> 0, raised |-> TRUE]
    ELSE LET x == Ord(Char(data, i + 1)) - Ord("a")
             y == Ord(Char(data, i + 2)) - Ord("1")
         IN  IF IndexRaises(x) \/ IndexRaises(y)
             THEN [square |-> 0, raised |-> TRUE]
             ELSE [square |-> from_x_and_y(Indexed(x), Indexed(y)),
                   raised |-> FALSE]

\* Move(a, b, data[4] if len(data) == 5 else None)
PacketMove(data) ==
    LET a == PacketSquare(data, 0)
        b == PacketSquare(data, 2)
    IN  IF a.raised \/ b.raised \/ (Len(data) = 5 /\ ~InStr(Char(data, 5), "nbrqNBRQ"))
        THEN [move |-> None, raised |-> TRUE]
        ELSE [move |-> Move(a.square, b.square,
                            IF Len(data) = 5 THEN Lower(Char(data, 5))
                            ELSE None),
              raised |-> FALSE]

\* Board(self): a new board with the start position
NewBoard(C) == [C EXCEPT !.board = TRUE, !.ply = 1, !.draggedSquare = NoSquare]

\* what a handler leaves: the plugin, the position and whether it raised
Handled(C, P, raised, sent) ==
    [plugin |-> C, pos |-> P, raised |-> raised, sent |-> sent]

\* the move of the packet has been made on the position of the board
PacketMade(C, P, made) ==
    IF made.raised THEN Handled(C, P, TRUE, <<>>)
    ELSE Handled([C EXCEPT !.ply = @ + 1], made.pos, FALSE, <<>>)

\* self.board.position.make_move(Move(a, b, ...)), self.board.ply += 1
PacketParsed(C, P, parsed) ==
    IF parsed.raised \/ ~C.board THEN Handled(C, P, TRUE, <<>>)
    ELSE PacketMade(C, P, make_move(P, get_legal_moves(P), parsed.move, TRUE))

\* the branch of the packets that are not new, yes or no
MovePacket(C, P, data) ==
    IF data = C.pre THEN Handled(C, P, FALSE, <<>>)
    ELSE PacketParsed([C EXCEPT !.pre = data], P, PacketMove(data))

\* Chess.lossless_packet, reply being the answer given in the message box
lossless_packet(C, P, data, friend_number, reply) ==
    IF data = "new"
    THEN IF ~reply
         THEN Handled([C EXCEPT !.pre = None], P, FALSE,
                      <<"no", friend_number>>)
         ELSE Handled([NewBoard(C) EXCEPT !.pre = None,
                                          !.game = friend_number,
                                          !.white = FALSE],
                      StartPosition, FALSE, <<"yes", friend_number>>)
    ELSE IF data = "yes" /\ friend_number = C.game
    THEN Handled(NewBoard(C), StartPosition, FALSE, <<>>)
    ELSE IF data = "no"
    THEN Handled([C EXCEPT !.game = NO_GAME], P, FALSE, <<>>)
    ELSE MovePacket(C, P, data)

\* Chess.start_game
start_game(C, P, num) ==
    Handled([C EXCEPT !.white = TRUE, !.game = num], P, FALSE, <<"new", num>>)

\* Board.canDragSquare
canDragSquare(C, legal, square) ==
    IF (C.ply % 2 = 0 /\ C.white) \/ (C.ply % 2 = 1 /\ ~C.white) THEN FALSE
    ELSE \E i \in 1..Len(legal.moves) : legal.moves[i].source = square

\* Board.moveFromDragDrop: the index of the first legal move from source to
\* target, 0 when there is none; no move of the inputs is a promotion
moveFromDragDrop(legal, source, target) ==
    IF \E i \in 1..Len(legal.moves) :
           legal.moves[i].source = source /\ legal.moves[i].target = target
    THEN CHOOSE i \in 1..Len(legal.moves) :
             /\ legal.moves[i].source = source /\ legal.moves[i].target = target
             /\ \A j \in 1..(i - 1) :
                    ~(legal.moves[j].source = source /\ legal.moves[j].target = target)
    ELSE 0

\* self.position.make_move(move), self.parent.move(move), self.ply += 1
Dropped(C, P, move, made) ==
    IF made.raised THEN Handled(C, P, TRUE, <<>>)
    ELSE Handled([C EXCEPT !.ply = @ + 1, !.draggedSquare = NoSquare], made.pos,
                 FALSE, <<MoveUci(move), C.game>>)

DropMove(C, P, legal, i) ==
    IF i = 0 THEN Handled([C EXCEPT !.draggedSquare = NoSquare], P, FALSE, <<>>)
    ELSE Dropped(C, P, legal.moves[i], make_move(P, legal, legal.moves[i], TRUE))

\* Board.mouseReleaseEvent with a dragged square
mouseReleaseEvent(C, P, legal, dropSquare) ==
    IF dropSquare = C.draggedSquare
    THEN Handled([C EXCEPT !.draggedSquare = NoSquare], P, FALSE, <<>>)
    ELSE DropMove(C, P, legal,
                  moveFromDragDrop(legal, C.draggedSquare, dropSquare))

\* Chess(): the plugin is loaded
PluginInit ==
    /\ plugin = NewChess
    /\ PositionIs(Blank)
    /\ fuel = 0
    /\ last = [op |-> "Chess", raised |-> FALSE, heard |-> None]
    /\ NoBag
    /\ NoParser

\* the state after a handler, and the record of the call: heard is the last
\* move packet of the friend played with since the game was started
PluginDone(record, done) ==
    /\ plugin' = done.plugin
    /\ PositionBecomes(done.pos)
    /\ last' = [record EXCEPT !.raised = done.raised, !.sent = done.sent]
    /\ UNCHANGED <<fuel, bag_headers, bag_game, chunks, current_state,
                   current_eco, current_name, lookup, classification>>

IsMovePacket(data) == data \notin {"new", "yes", "no"}

Heard(data, friend_number, reply) ==
    IF data = "new" /\ reply THEN None
    ELSE IF IsMovePacket(data) /\ friend_number = plugin.game THEN data
    ELSE last.heard

\* a packet arrives
Packets ==
    \E data \in PacketInputs, friend_number \in Friends, reply \in BOOLEAN :
        /\ data # "new" => reply
        /\ PluginDone([op |-> "lossless_packet", data |-> data,
                       friend |-> friend_number, raised |-> FALSE,
                       sent |-> <<>>,
                       heard |-> Heard(data, friend_number, reply)],
                      lossless_packet(plugin, Cur, data, friend_number, reply))

\* "Start game" is chosen in the menu of a friend
StartGames ==
    \E num \in Friends :
        PluginDone([op |-> "start_game", data |-> "", friend |-> num,
                    raised |-> FALSE, sent |-> <<>>, heard |-> None],
                   start_game(plugin, Cur, num))

\* Board.mousePressEvent on a square that can be dragged
Pressed(square, legal) ==
    /\ canDragSquare(plugin, legal, square)
    /\ PluginDone([op |-> "mousePressEvent", data |-> "", friend |-> square,
                   raised |-> FALSE, sent |-> <<>>, heard |-> last.heard],
                  Handled([plugin EXCEPT !.draggedSquare = square], Cur,
                          FALSE, <<>>))

Presses ==
    /\ plugin.board
    /\ \E square \in PressInputs : Pressed(square, get_legal_moves(Cur))

\* Board.mouseReleaseEvent after a press
Releases ==
    /\ plugin.board
    /\ plugin.draggedSquare # NoSquare
    /\ \E square \in ReleaseInputs :
           PluginDone([op |-> "mouseReleaseEvent", data |-> "",
                       friend |-> square, raised |-> FALSE, sent |-> <<>>,
                       heard |-> last.heard],
                      mouseReleaseEvent(plugin, Cur, get_legal_moves(Cur),
                                        square))

PluginNext == Packets \/ StartGames \/ Presses \/ Releases

PluginSpec == PluginInit /\ [][PluginNext]_vars

(***************************************************************************)
(* Notions the claims are stated with                                      *)

(***************************************************************************)
(* The state machine of the queries: the calls on a Position that return a *)
(* value. The objects a call works on are the Position it is called on     *)
(* (self), the copy it makes of it (copy) and the copy made while a copy   *)
(* is at work (inner); the call goes through its steps, a step being a     *)
(* copy(), a make_move on a copy, or both as in the loop of                *)
(* get_legal_moves, and each writes to the object its code writes to.      *)
(***************************************************************************)
\* the number of pseudo-legal moves handed to get_move_info and made on a copy
MaxQueryMoves == 2

\* a variant of copy() that hands out the object itself
CopyObject_Alias(heap, of, into) == [heap |-> heap, ref |-> of]

\* Position.copy() on the object of: Position(self.fen), a new object, kept
\* in the slot into
CopyObject(heap, of, into) ==
    [heap |-> [heap EXCEPT ![into] = Copy(heap[of])], ref |-> into]

\* make_move(move, False) on the object ref: its writes go to that object
MoveOn(heap, ref, move) ==
    IF ApplyMoveRaises(heap[ref], move)
    THEN [heap |-> heap, ref |-> ref, raised |-> TRUE]
    ELSE [heap |-> [heap EXCEPT ![ref] = ApplyMove(heap[ref], move)],
          ref |-> ref, raised |-> FALSE]

\* a step of a call: kind is "copy", "move" or "look"; of is the object
\* copied, "result" for the one the first copy() of the call returned
QueryStep(kind, of, into, move) ==
    [kind |-> kind, of |-> of, into |-> into, move |-> move]

\* the loop of get_legal_moves on the object of, whose value is P: for each
\* pseudo-legal move a copy and the move on it
LookAheads(P, of, into) ==
    LET pseudo == get_pseudo_legal_moves(P).moves
    IN  [i \in 1..Len(pseudo) |-> QueryStep("look", of, into, pseudo[i])]

\* move not in self.get_legal_moves(): the generator is read up to the move
RECURSIVE UpToMove(_, _, _, _)
UpToMove(P, steps, move, i) ==
    IF i > Len(steps) THEN steps
    ELSE IF MoveEq(steps[i].move, move)
            /\ ~ApplyMoveRaises(P, move)
            /\ ~is_king_attacked(ApplyMove(P, move), P.turn)
         THEN SubSeq(steps, 1, i)
    ELSE UpToMove(P, steps, move, i + 1)

\* is_checkmate()
MateSteps(P, of, into) ==
    IF ~is_check(P) THEN << >> ELSE LookAheads(P, of, into)

\* is_stalemate()
StaleSteps(P, of, into) ==
    IF is_check(P) THEN << >> ELSE LookAheads(P, of, into)

\* get_move_from_san(san)
SanSteps(P, san) ==
    IF san = "O-O" \/ san = "O-O-O" THEN << >>
    ELSE IF ~SanMatch(san).ok THEN << >>
    ELSE LookAheads(P, "self", "copy")

\* get_move_info(move), once self.copy().make_move(move) has validated the
\* move on the copy whose value is scratch: the move is made on the copy, the
\* copy is asked is_checkmate() and the disambiguator reads the legal moves
\* of self (all of them here; the loop may end before the last)
InfoStepsAfter(P, scratch, legal, move) ==
    IF ~MoveIn(move, legal.moves) THEN << >>
    ELSE << QueryStep("move", "result", "copy", move) >>
         \o MateSteps(ApplyMove(scratch, move), "result", "inner")
         \o (IF PieceType(P.board[move.source]) = "k"
                /\ Abs(SquareX(move.target) - SquareX(move.source)) = 2
             THEN << >> ELSE LookAheads(P, "self", "inner"))

InfoStepsOn(P, scratch, move) ==
    << QueryStep("copy", "self", "copy", move) >>
    \o UpToMove(scratch, LookAheads(scratch, "result", "inner"), move, 1)
    \o InfoStepsAfter(P, scratch, get_legal_moves(scratch), move)

InfoSteps(P, move) == InfoStepsOn(P, Copy(P), move)

\* position.copy().make_move(move, False)
CopyMoveSteps(move) ==
    << QueryStep("copy", "self", "copy", move),
       QueryStep("move", "result", "copy", move) >>

\* a call begins on an object just built: the record of the call and the
\* steps it has ahead
Queried(name, arg, steps) ==
    /\ last.op = "Position"
    /\ ~last.raised
    /\ last' = [op |-> "query", name |-> name, arg |-> arg, before |-> Cur,
                copy |-> Cur, inner |-> Cur, result |-> "self",
                todo |-> steps, raised |-> FALSE]
    /\ fuel' = 0
    /\ UNCHANGED <<board, turn, castling, ep_file, half_moves, ply,
                   bag_headers, bag_game, plugin, chunks, current_state, current_eco,
                   current_name, lookup, classification>>

\* the calls whose code assigns to no object and makes no copy
Readers ==
    {"get_pseudo_legal_moves", "is_attacked", "is_check", "fen",
     "hash_position"}

ReadQueries == \E name \in Readers : Queried(name, "", << >>)

LegalQuery == Queried("get_legal_moves", "", LookAheads(Cur, "self", "copy"))

MateQueries ==
    \/ Queried("is_checkmate", "", MateSteps(Cur, "self", "copy"))
    \/ Queried("is_stalemate", "", StaleSteps(Cur, "self", "copy"))

SanQueries ==
    \E san \in SanInputs : Queried("get_move_from_san", san, SanSteps(Cur, san))

\* the moves of the calls: the first pseudo-legal ones and the other moves
FirstMoves(pseudo) ==
    {pseudo[i] : i \in 1..(IF Len(pseudo) < MaxQueryMoves THEN Len(pseudo)
                           ELSE MaxQueryMoves)}

QueryMoves == FirstMoves(get_pseudo_legal_moves(Cur).moves) \cup OtherMoves

InfoQueries ==
    \E move \in QueryMoves :
        Queried("get_move_info", MoveUci(move), InfoSteps(Cur, move))

CopyMoves ==
    \E move \in QueryMoves :
        Queried("copy", MoveUci(move), CopyMoveSteps(move))

\* the objects of the call under way
Heap == [self |-> Cur, copy |-> last.copy, inner |-> last.inner]

\* the object a step names
StepObject(step) == IF step.of = "result" THEN last.result ELSE step.of

\* the step has left the objects done.heap; an error ends the call
Stepped(done, result) ==
    /\ PositionBecomes(done.heap.self)
    /\ last' = [last EXCEPT !.copy = done.heap.copy,
                            !.inner = done.heap.inner,
                            !.result = result,
                            !.todo = IF done.raised THEN << >> ELSE Tail(last.todo),
                            !.raised = done.raised]
    /\ UNCHANGED <<fuel, bag_headers, bag_game, plugin, chunks, current_state,
                   current_eco, current_name, lookup, classification>>

StepReady(kind) ==
    /\ last.op = "query"
    /\ last.todo # << >>
    /\ Head(last.todo).kind = kind

\* self.copy(), the first of a call: the object it returns is the result
Copied(c) == Stepped([heap |-> c.heap, raised |-> FALSE], c.ref)

CopyStep ==
    /\ StepReady("copy")
    /\ Copied(CopyObject(Heap, StepObject(Head(last.todo)), Head(last.todo).into))

\* make_move(move, False) on the result
MoveStep ==
    /\ StepReady("move")
    /\ Stepped(MoveOn(Heap, last.result, Head(last.todo).move), last.result)

\* one turn of the loop of get_legal_moves: potential_position = self.copy()
\* and potential_position.make_move(move, False)
LookedAhead(c, move) == Stepped(MoveOn(c.heap, c.ref, move), last.result)

LookAheadStep ==
    /\ StepReady("look")
    /\ LookedAhead(CopyObject(Heap, StepObject(Head(last.todo)),
                              Head(last.todo).into),
                   Head(last.todo).move)

QueryNext ==
    \/ ReadQueries \/ LegalQuery \/ MateQueries \/ SanQueries \/ InfoQueries
    \/ CopyMoves
    \/ CopyStep \/ MoveStep \/ LookAheadStep

QuerySpec == Init /\ [][QueryNext]_vars

(***************************************************************************)
\* a position object exists and no call on it is under way
Built == ~(last.op = "Position" /\ last.raised)

\* a piece of the colour reaches square s by the movement rules of the move
\* generation: the offsets of its type, sliding pieces over empty squares only
Reaches(b, color, s) ==
    \E src \in OnBoardSquares :
        /\ b[src] # None
        /\ PieceColor(b[src]) = color
        /\ LET type == PieceType(b[src])
           IN  IF type = "p"
               THEN s = src + PAWN_OFFSETS(color)[3] \/ s = src + PAWN_OFFSETS(color)[4]
               ELSE \E k \in 1..Len(PIECE_OFFSETS(type)) :
                       LET off == PIECE_OFFSETS(type)[k]
                       IN  IF type \in {"n", "k"} THEN s = src + off
                           ELSE \E n \in 1..7 :
                                   /\ s = src + n * off
                                   /\ \A j \in 1..(n - 1) :
                                         /\ ~OffBoard(src + j * off)
                                         /\ b[src + j * off] = None

\* the squares holding a king of the colour
KingSquares(b, color) ==
    {sq \in OnBoardSquares : b[sq] = from_color_and_type(color, "k")}

\* the move is a pawn's diagonal step onto an empty square of position P
DiagonalOntoEmpty(P, m) ==
    /\ P.board[m.source] # None
    /\ PieceType(P.board[m.source]) = "p"
    /\ SquareFile(m.source) # SquareFile(m.target)
    /\ P.board[m.target] = None

(***************************************************************************)
(* C1: a diagonal pawn move is generated only onto an enemy piece or onto  *)
(* the en-passant target square: the empty square on the file ep_file, on  *)
(* rank 6 when white is to move and on rank 3 when black is.               *)
(***************************************************************************)
C1_DiagonalOnlyOntoEnemyOrEpTarget ==
    Built =>
        \A m \in SeqToSet(get_pseudo_legal_moves(Cur).moves) :
            (PieceType(board[m.source]) = "p"
             /\ SquareFile(m.source) # SquareFile(m.target))
            => \/ (board[m.target] # None /\ PieceColor(board[m.target]) # turn)
               \/ /\ board[m.target] = None
                  /\ SquareFile(m.target) = ep_file
                  /\ SquareRank(m.target) = (IF turn = "w" THEN 6 ELSE 3)

C3_ValidatedMoveAllOrNothing ==
    last.op = "make_move" =>
        IF last.move \in SeqToSet(get_legal_moves(last.before).moves)
        THEN /\ ~last.raised
             /\ Cur = ApplyMove(last.before, last.move)
             /\ turn = opposite_color(last.before.turn)
             /\ board[last.move.source] = None
             /\ board[last.move.target] # None
             /\ ~ApplyMoveRaises(last.before, last.move)
        ELSE /\ last.raised
             /\ Cur = last.before

\* C3's case: a pseudo-legal move that leaves the king attacked was refused
C3_Witness ==
    /\ last.op = "make_move"
    /\ last.raised
    /\ last.move \in SeqToSet(get_pseudo_legal_moves(last.before).moves)
    /\ Cur = last.before

(***************************************************************************)
(* C4: when make_move applies a pawn's diagonal move onto an empty square, *)
(* the one piece that leaves the board is the enemy pawn on the target's   *)
(* file and on the rank the capturing pawn came from; nothing else         *)
(* changes but the pawn's own two squares.                                 *)
(***************************************************************************)
C4_EnPassantRemovesTheEnemyPawn ==
    (last.op = "make_move" /\ ~last.raised
     /\ DiagonalOntoEmpty(last.before, last.move))
    => LET m == last.move
           old == last.before.board
           victim == from_rank_and_file(SquareRank(m.source), SquareFile(m.target))
       IN  /\ old[victim] = from_color_and_type(turn, "p")
           /\ board[victim] = None
           /\ board[m.target] = old[m.source]
           /\ board[m.source] = None
           /\ \A sq \in (0..127) \ {m.source, m.target, victim} :
                  board[sq] = old[sq]

(***************************************************************************)
(* C5: a castling move (the king of the side to move going two files) is   *)
(* generated only if the right is set, the f and g files (king side) or    *)
(* the b, c and d files (queen side) of the king's rank are empty, the     *)
(* king is not in check, and the opponent reaches neither the square the   *)
(* king passes nor the one it lands on.                                    *)
(***************************************************************************)
C5_CastlingOnlyWhenAllowed ==
    Built =>
        \A m \in SeqToSet(get_pseudo_legal_moves(Cur).moves) :
            (board[m.source] = from_color_and_type(turn, "k")
             /\ Abs(SquareX(m.target) - SquareX(m.source)) = 2)
            => LET rank == SquareRank(m.source)
                   kingSide == SquareX(m.target) > SquareX(m.source)
                   right == IF kingSide THEN from_color_and_type(turn, "k")
                            ELSE from_color_and_type(turn, "q")
                   between == IF kingSide THEN {"f", "g"} ELSE {"b", "c", "d"}
                   passed == IF kingSide THEN m.source + 1 ELSE m.source - 1
                   opponent == opposite_color(turn)
               IN  /\ get_castling_right(Cur, right)
                   /\ \A f \in between : board[from_rank_and_file(rank, f)] = None
                   /\ ~Reaches(board, opponent, m.source)
                   /\ ~Reaches(board, opponent, passed)
                   /\ ~Reaches(board, opponent, m.target)

(***************************************************************************)
(* C6: no make_move sets a castling right that was not set before it.      *)
(***************************************************************************)
C6_CastlingRightsNeverResurrect ==
    [][\A i \in 1..4 :
          ~InStr(CASTLING_TYPES[i], castling) => ~InStr(CASTLING_TYPES[i], castling')]_vars

\* C6's case: the white king stands on e1 again, beside its rook, after it
\* moved away, and the right K is gone
C6_Witness ==
    /\ last.op = "make_move"
    /\ ~last.raised
    /\ last.before.board[last.move.source] = "K"
    /\ get_theoretical_castling_right(Cur, "K")
    /\ ~get_castling_right(Cur, "K")
    /\ ~get_castling_right(last.before, "K")

(***************************************************************************)
(* C7: Position(P.fen) equals P field for field, the en-passant file being *)
(* either equal or dropped when no capture is possible on it; so that      *)
(* Position(P.fen).fen = P.fen.                                            *)
(***************************************************************************)
C7_FenRoundTrip ==
    Built =>
        LET again == NewPosition(FenOf(Cur))
        IN  /\ ~again.raised
            /\ again.pos.board = board
            /\ again.pos.turn = turn
            /\ again.pos.castling = castling
            /\ again.pos.half_moves = half_moves
            /\ again.pos.ply = ply
            /\ \/ again.pos.ep_file = ep_file
               \/ /\ again.pos.ep_file = None
                  /\ ~get_theoretical_ep_right(Cur, ep_file)
            /\ FenOf(again.pos) = FenOf(Cur)

(***************************************************************************)
(* C8: Position(fen) raises for every fen whose piece placement does not   *)
(* hold exactly 8 ranks of exactly 8 files each.                           *)
(***************************************************************************)
\* the files a rank of the piece placement stands for
RECURSIVE RowFiles(_)
RowFiles(row) ==
    IF Len(row) = 0 THEN 0
    ELSE (IF InStr(Char(row, 1), "12345678") THEN DigitValue(Char(row, 1)) ELSE 1)
         + RowFiles(Tail(row))

PlacementMalformed(fen) ==
    LET rows == Split(SplitBlanks(fen)[1], "/")
    IN  Len(rows) # 8 \/ \E r \in 1..Len(rows) : RowFiles(rows[r]) # 8

C8_MalformedPlacementRejected ==
    (last.op = "Position" /\ PlacementMalformed(last.fen)) => last.raised

(***************************************************************************)
(* C9: get_move_from_san returns a move only when exactly one legal move   *)
(* matches the text, and then returns that move; when no legal move or     *)
(* more than one matches, it raises.                                       *)
(***************************************************************************)
\* the legal move m is what the text san denotes in position P
SanDenotes(P, san, m) ==
    IF san \in {"O-O", "O-O-O"}
    THEN /\ P.board[m.source] = from_color_and_type(P.turn, "k")
         /\ SquareFile(m.source) = "e"
         /\ SquareFile(m.target) = (IF san = "O-O" THEN "g" ELSE "c")
         /\ SquareRank(m.target) = SquareRank(m.source)
    ELSE LET g == SanMatch(san)
         IN  /\ g.ok
             /\ SanLoopMatch(P, g, m)
             /\ m.promotion = (IF g.promotion = "" THEN None
                               ELSE LowerPiece(Char(g.promotion, 2)))

C9_SanReturnsTheUniqueLegalMove ==
    Built =>
        LET legal == get_legal_moves(Cur)
        IN  \A san \in SanInputs :
                LET got == get_move_from_san(Cur, legal, san)
                    denoted == {m \in SeqToSet(legal.moves) : SanDenotes(Cur, san, m)}
                IN  /\ ~got.raised => denoted = {got.move}
                    /\ Cardinality(denoted) # 1 => got.raised

(***************************************************************************)
(* C10: the standard start position has exactly 20 legal moves, 16 of      *)
(* pawns and 4 of knights, and none of them twice.                         *)
(***************************************************************************)
C10_StartPositionHasTwentyMoves ==
    (Built /\ FenOf(Cur) = START_FEN)
    => LET legal == get_legal_moves(Cur)
       IN  /\ ~legal.raised
           /\ Len(legal.moves) = 20
           /\ Cardinality(SeqToSet(legal.moves)) = 20
           /\ Cardinality({i \in 1..Len(legal.moves) :
                             board[legal.moves[i].source] = "P"}) = 16
           /\ Cardinality({i \in 1..Len(legal.moves) :
                             board[legal.moves[i].source] = "N"}) = 4

\* C10's case: the object was built from the standard start FEN
C10_Witness ==
    /\ last.op = "Position"
    /\ ~last.raised
    /\ last.fen = START_FEN
    /\ FenOf(Cur) = START_FEN
    /\ Len(get_legal_moves(Cur).moves) = 20

(***************************************************************************)
(* C11: played from the start position as SAN, e4 e5 Qh5 Nc6 Bc4 Nf6 Qxf7# *)
(* ends in a position where is_checkmate() is true, and get_move_info of   *)
(* the last move gives a SAN that ends in "#"; e4 e5 Qh5 Nc6 Qxf7# ends in *)
(* a check that is no mate, and the SAN of its last move is Qxf7+.         *)
(***************************************************************************)
\* the last text of a script has been handed to PlaySan
ScriptEnded(script) ==
    /\ last.op = "san"
    /\ last.script = script
    /\ last.step = Len(SanScripts[script])

EndsWith(s, c) == Len(s) > 0 /\ Char(s, Len(s)) = c

C11_ScholarsMateNeedsTheBishop ==
    /\ ScriptEnded(1) =>
          /\ ~last.raised
          /\ is_checkmate(Cur, get_legal_moves(Cur)).value
          /\ EndsWith(last.info, "#")
    /\ ScriptEnded(2) =>
          /\ ~last.raised
          /\ is_check(Cur)
          /\ ~is_checkmate(Cur, get_legal_moves(Cur)).value
          /\ last.info = "Qxf7+"

\* C11's case: the queen has taken on f7 with the bishop on c4 behind it
C11_Witness ==
    /\ ScriptEnded(1)
    /\ ~last.raised
    /\ board[from_rank_and_file(7, "f")] = "Q"
    /\ board[from_rank_and_file(4, "c")] = "B"
    /\ get_legal_moves(Cur).moves = << >>

\* C11 as the specification words it: e4 e5 Qh5 Nc6 Qxf7# ends in checkmate
\* and the SAN of the last move ends in "#"
C11_AsClaimed ==
    ScriptEnded(2) =>
        /\ ~last.raised
        /\ is_checkmate(Cur, get_legal_moves(Cur)).value
        /\ EndsWith(last.info, "#")

(***************************************************************************)
(* C12: is_checkmate() and is_stalemate() are never both true;             *)
(* is_checkmate() holds exactly when the king of the side to move is       *)
(* attacked and get_legal_moves() is empty, is_stalemate() exactly when it *)
(* is not attacked and get_legal_moves() is empty.                         *)
(***************************************************************************)
\* a piece of the opponent reaches the king of the side to move
KingReached ==
    \E k \in KingSquares(board, turn) : Reaches(board, opposite_color(turn), k)

SquaresOf(types) ==
    {sq \in 0..127 : board[sq] # None /\ PieceType(board[sq]) \in types}

\* a dark square of the chessboard: a1 is dark, h1 is light
DarkSquare(sq) == (SquareX(sq) + SquareY(sq)) % 2 = 0

C13_InsufficientMaterial ==
    (Built /\ Cardinality(KingSquares(board, "w")) = 1
           /\ Cardinality(KingSquares(board, "b")) = 1
           /\ \A sq \in 0..127 : OffBoard(sq) => board[sq] = None)
    => LET result == is_insufficient_material(Cur)
           bishops == SquaresOf({"b"})
           others == SquaresOf({"p", "r", "q", "n"})
           oneColour == \/ \A sq \in bishops : DarkSquare(sq)
                        \/ \A sq \in bishops : ~DarkSquare(sq)
           bothSides == /\ \E sq \in bishops : PieceColor(board[sq]) = "w"
                        /\ \E sq \in bishops : PieceColor(board[sq]) = "b"
       IN  /\ ~result.raised
           /\ SquaresOf({"p", "r", "q", "n", "b"}) = {} => result.value
           /\ Cardinality(SquaresOf({"p", "r", "q", "n", "b"})) = 1
              /\ SquaresOf({"b", "n"}) # {} => result.value
           /\ (others = {} /\ bothSides /\ oneColour) => result.value
           /\ (bishops # {} /\ ~oneColour) => ~result.value
           /\ SquaresOf({"p", "r", "q"}) # {} => ~result.value

(***************************************************************************)
(* C14: the hash of a Position built from an interchange string is the     *)
(* same whatever the half-move clock and the full-move counter of the      *)
(* string are, and it is the hash of a position with that board, side to   *)
(* move, castling rights and en-passant file.                              *)
(***************************************************************************)
\* the same interchange string with other counters
WithCounters(fen, clock, number) ==
    LET t == SplitBlanks(fen)
    IN  Join(<< t[1], t[2], t[3], t[4], Str(clock), Str(number) >>, " ")

C14_HashIgnoresTheCounters ==
    Built =>
        \A clock \in {0, 7}, number \in {1, 12} :
            LET other == NewPosition(WithCounters(FenOf(Cur), clock, number))
            IN  /\ ~other.raised
                /\ hash_position(other.pos) = hash_position(Cur)

\* C14's case: a position reached by a move, with the clock running and an
\* en-passant file that takes part in the hash
C14_Witness ==
    /\ last.op = "make_move"
    /\ ~last.raised
    /\ ep_file # None
    /\ 772 + FileIndex(ep_file) \in hash_position(Cur)

(***************************************************************************)
(* C15: after any sequence of assignments and deletions, failed ones       *)
(* included, the headers Event, Site, Date, Round, White, Black and Result *)
(* are all present; deleting one of them, however its name is capitalized, *)
(* fails and changes nothing.                                              *)
(***************************************************************************)
\* the names of the seven headers as written, in lower and in upper case
RequiredSpellings ==
    UNION {{k, Lower(k), Upper(k)} : k \in REQUIRED_HEADERS} \cup {"rESULT"}

\* the key is handed out by iteration
Iterated(key) ==
    LET keys == iter(bag_headers, bag_game)
    IN  \E i \in 1..Len(keys) : keys[i] = key

C15_RequiredHeadersStay ==
    /\ LET keys == iter(bag_headers, bag_game)
       IN  \A k \in REQUIRED_HEADERS :
               /\ contains(bag_headers, bag_game, k)
               /\ \E i \in 1..Len(keys) : keys[i] = k
               /\ ~getitem(bag_headers, bag_game, ply, k).raised
    /\ \A key \in RequiredSpellings :
           delitem(bag_headers, key) = [headers |-> bag_headers, raised |-> TRUE]
    /\ (last.op = "delitem" /\ last.key \in RequiredSpellings)
           => last.raised /\ bag_headers = last.before

\* C15's case: a required header, named in another capitalization, was to be
\* deleted from a bag that an earlier call had changed
C15_Witness ==
    /\ last.op = "delitem"
    /\ last.key = "rESULT"
    /\ last.raised
    /\ bag_headers # DefaultHeaders
    /\ Len(bag_headers) > Len(DefaultHeaders)

(***************************************************************************)
(* C16: SetUp is derived: it is present (membership, iteration, lookup)    *)
(* with the value "1" exactly when a FEN header is present; without a FEN  *)
(* header it is not contained, not iterated and its lookup fails; and an   *)
(* assignment to SetUp changes nothing of what is observed for it.         *)
(***************************************************************************)
\* what is observed for SetUp on a bag holding hs
SetUpSeen(hs) ==
    LET keys == iter(hs, bag_game)
    IN  << contains(hs, bag_game, "SetUp"),
           \E i \in 1..Len(keys) : keys[i] = "SetUp",
           getitem(hs, bag_game, ply, "SetUp") >>

C16_SetUpFollowsFen ==
    /\ IF contains(bag_headers, bag_game, "FEN")
       THEN SetUpSeen(bag_headers)
                = <<TRUE, TRUE, [value |-> "1", raised |-> FALSE]>>
       ELSE /\ ~contains(bag_headers, bag_game, "SetUp")
            /\ ~Iterated("SetUp")
            /\ getitem(bag_headers, bag_game, ply, "SetUp").raised
    /\ (last.op = "setitem" /\ Lower(last.key) = "setup")
           => SetUpSeen(bag_headers) = SetUpSeen(last.before)

(***************************************************************************)
(* C17: on a bag bound to a Position, assigning FEN a value other than the *)
(* current one is rejected exactly when a move has been made on that       *)
(* Position; on a fresh Position the assignment succeeds and is stored.    *)
(***************************************************************************)
\* the FEN header in force: the stored one, the start position without one
FenInForce(hs) ==
    IF Stored(hs, "FEN") THEN StoredValue(hs, "FEN") ELSE START_FEN

\* a move has been made on the bound Position
GameHasMoved == Cur # StartPosition

\* the last call assigned FEN a valid value other than the one in force
FenChanging ==
    /\ last.op = "setitem"
    /\ Lower(last.key) = "fen"
    /\ ~NewPosition(last.value).raised
    /\ FenOf(NewPosition(last.value).pos) # FenInForce(last.before)

C17_FenLockedOnlyAfterAMove ==
    (bag_game # None /\ FenChanging)
        => /\ last.raised <=> GameHasMoved
           /\ ~GameHasMoved
                  => FenInForce(bag_headers)
                         = FenOf(NewPosition(last.value).pos)

(***************************************************************************)
(* C18: an assignment to Date succeeds only for a value of the form        *)
(* YYYY.MM.DD, the year possibly ????, month and day possibly ??, and a    *)
(* fully given date has to exist in the calendar: 2024.13.40 is rejected,  *)
(* 2024.??.?? is accepted and stored as it is; an assignment to Result     *)
(* succeeds exactly for 1-0, 0-1, 1/2-1/2 and *; a rejected assignment     *)
(* leaves the stored value in place.                                       *)
(***************************************************************************)
\* the text has the form YYYY.MM.DD with the placeholders allowed
DateForm(v) ==
    /\ Len(v) = 10
    /\ SubSeq(v, 1, 4) = "????" \/ isdigit(SubSeq(v, 1, 4))
    /\ Char(v, 5) = "."
    /\ SubSeq(v, 6, 7) = "??" \/ isdigit(SubSeq(v, 6, 7))
    /\ Char(v, 8) = "."
    /\ SubSeq(v, 9, 10) = "??" \/ isdigit(SubSeq(v, 9, 10))

\* a text of the form without placeholders names a day of the calendar
DateExists(v) ==
    isdigit(SubSeq(v, 1, 4) \o SubSeq(v, 6, 7) \o SubSeq(v, 9, 10))
        => /\ ParseInt(SubSeq(v, 1, 4)) >= 1
           /\ ParseInt(SubSeq(v, 6, 7)) \in 1..12
           /\ ParseInt(SubSeq(v, 9, 10))
                  \in 1..DaysInMonth(ParseInt(SubSeq(v, 1, 4)),
                                     ParseInt(SubSeq(v, 6, 7)))

C18_DateAndResultValidated ==
    /\ (last.op = "setitem" /\ Lower(last.key) = "date")
           => /\ ~last.raised => DateForm(last.value) /\ DateExists(last.value)
              /\ last.value = "2024.13.40" => last.raised
              /\ last.value = "2024.??.??"
                     => /\ ~last.raised
                        /\ StoredValue(bag_headers, "Date") = "2024.??.??"
    /\ (last.op = "setitem" /\ Lower(last.key) = "result")
           => (~last.raised <=> last.value \in {"1-0", "0-1", "1/2-1/2", "*"})
    /\ (last.op = "setitem" /\ last.raised) => bag_headers = last.before

(***************************************************************************)
(* C19: after read_all over complete records, lookup[code] holds the name  *)
(* and the FEN of the first completed record with that code, a later       *)
(* record of the same code never replacing it; the FEN is that of the      *)
(* position reached from the initial position by the record's moves. The   *)
(* record C20 "King's Pawn" 1.e4 e5 * alone gives lookup["C20"] the name   *)
(* King's Pawn and the FEN after 1.e4 e5.                                  *)
(***************************************************************************)
\* the position after 1.e4 e5
KINGS_PAWN_FEN ==
    "rnbqkbnr/pppp1ppp/8/4p3/4P3/8/PPPP1PPP/RNBQKBNR w KQkq - 0 2"

\* the position after the moves, given as source and target squares
RECURSIVE Played(_, _, _)
Played(P, moves, i) ==
    IF i > Len(moves) THEN P
    ELSE Played(ApplyMove(P, from_uci(moves[i]).move), moves, i + 1)

\* the entries the records of the files have to leave in the lookup table
EcoEntries ==
    [r \in 1..Len(EcoRecords) |->
        [eco |-> EcoRecords[r].eco, name |-> EcoRecords[r].name,
         fen |-> FenOf(Played(StartPosition, EcoRecords[r].moves, 1))]]

\* the first record of the file with the code of record i
FirstWithCode(stream, i) ==
    stream[CHOOSE j \in 1..i :
        /\ EcoRecords[stream[j]].eco = EcoRecords[stream[i]].eco
        /\ \A k \in 1..(j - 1) :
               EcoRecords[stream[k]].eco # EcoRecords[stream[i]].eco]

\* read_all has read the whole file into a parser that builds the lookup
ReadAll == last.op = "read_chunk" /\ Len(chunks) = 0 /\ ~lookup.none

C19_LookupKeepsFirstRecord ==
    /\ (last.op \in {"tokenize", "read_chunk"} /\ ~lookup.none)
           => ~last.raised
    /\ ReadAll
           => /\ current_state = ECO_STATE
              /\ \A i \in 1..Len(last.stream) :
                     \E j \in 1..Len(lookup.items) :
                         lookup.items[j]
                             = EcoEntries[FirstWithCode(last.stream, i)]
              /\ \A j \in 1..Len(lookup.items) :
                     /\ \E i \in 1..Len(last.stream) :
                            lookup.items[j].eco = EcoRecords[last.stream[i]].eco
                     /\ \A k \in 1..Len(lookup.items) :
                            lookup.items[k].eco = lookup.items[j].eco => k = j
    /\ (ReadAll /\ last.stream = <<1>>)
           => lookup.items
                  = << [eco |-> "C20", name |-> "King's Pawn",
                        fen |-> KINGS_PAWN_FEN] >>

\* C19's case: the file held two records of the code C20, King's Pawn first
C19_Witness ==
    /\ ReadAll
    /\ last.stream = <<1, 2>>
    /\ ~last.raised
    /\ Len(lookup.items) = 1
    /\ lookup.items[1].name = "King's Pawn"

(***************************************************************************)
(* C20: Move.from_uci(m.uci) == m for every move m; m.uci is the name of   *)
(* the source, the name of the target and the promotion letter if any, 4   *)
(* or 5 characters; every move whose source is its target is null and      *)
(* renders as 0000, and from_uci("0000") is a null move.                   *)
(***************************************************************************)
\* the moves the claim is tried on: those tried on the position, and null
\* moves on squares other than a1, without and with a promotion piece
UciMoves ==
    InputMoves
    \cup {Move(sq, sq, promotion) :
            sq \in {from_rank_and_file(3, "c"), from_rank_and_file(8, "h")},
            promotion \in {None, "q"}}

C20_UciRoundTrip ==
    Built =>
        /\ \A m \in UciMoves :
              LET back == from_uci(MoveUci(m))
              IN  /\ ~back.raised
                  /\ MoveEq(back.move, m)
                  /\ Len(MoveUci(m)) = (IF m.promotion # None /\ m.source # m.target
                                        THEN 5 ELSE 4)
                  /\ m.source # m.target =>
                        /\ back.move = m
                        /\ SubSeq(MoveUci(m), 1, 2) = SquareName(m.source)
                        /\ SubSeq(MoveUci(m), 3, 4) = SquareName(m.target)
                  /\ MoveIsNull(m) <=> m.source = m.target
                  /\ m.source = m.target => MoveUci(m) = "0000"
        /\ ~from_uci("0000").raised
        /\ MoveIsNull(from_uci("0000").move)

\* C20's case: promotions are among the moves, beside the null moves
C20_Witness ==
    /\ Built
    /\ \E m \in UciMoves : m.promotion # None /\ m.source # m.target
    /\ \E m \in UciMoves : m.source = m.target /\ m # get_null

(***************************************************************************)
(* C21: a legal move never removes a king: in a position with exactly one  *)
(* king of each colour, make_move of a move of get_legal_moves gives a     *)
(* position that still has exactly one white and exactly one black king.   *)
(***************************************************************************)
OneKingEach(b) ==
    /\ Cardinality(KingSquares(b, "w")) = 1
    /\ Cardinality(KingSquares(b, "b")) = 1

C21_LegalMoveKeepsTheKings ==
    (last.op = "make_move" /\ ~last.raised /\ OneKingEach(last.before.board))
        => OneKingEach(board)

(***************************************************************************)
(* C22: after every make_move each castling right that is still set has    *)
(* its precondition on the board: K the white king on e1 and a white rook  *)
(* on h1, Q the king on e1 and a rook on a1, k the black king on e8 and a  *)
(* black rook on h8, q the king on e8 and a rook on a8.                    *)
(***************************************************************************)
HomeSquaresHold(b, type) ==
    CASE type = "K" -> b[from_rank_and_file(1, "e")] = "K"
                       /\ b[from_rank_and_file(1, "h")] = "R"
      [] type = "Q" -> b[from_rank_and_file(1, "e")] = "K"
                       /\ b[from_rank_and_file(1, "a")] = "R"
      [] type = "k" -> b[from_rank_and_file(8, "e")] = "k"
                       /\ b[from_rank_and_file(8, "h")] = "r"
      [] type = "q" -> b[from_rank_and_file(8, "e")] = "k"
                       /\ b[from_rank_and_file(8, "a")] = "r"

MoveMade == last.op = "make_move" /\ ~last.raised

C22_SetRightsHaveTheirHomeSquares ==
    MoveMade =>
        \A type \in {"K", "Q", "k", "q"} :
            get_castling_right(Cur, type) => HomeSquaresHold(board, type)

\* C22's case: the move took a rook off its corner, the right of that side
\* went with it and the other right of the colour stayed
C22_Witness ==
    /\ MoveMade
    /\ get_castling_right(last.before, "K")
    /\ get_castling_right(last.before, "Q")
    /\ last.before.board[last.move.source] = "R"
    /\ ~get_castling_right(Cur, "K")
    /\ get_castling_right(Cur, "Q")

(***************************************************************************)
(* C23: after make_move(m) the en-passant file is f exactly when m moved a *)
(* pawn two ranks forward on file f and a pawn of the new side to move     *)
(* stands on an adjacent file on the rank the pawn arrived on; after every *)
(* other move it is None.                                                  *)
(***************************************************************************)
DoubleStep(b, m) ==
    /\ PieceType(b[m.source]) = "p"
    /\ SquareX(m.target) = SquareX(m.source)
    /\ SquareRank(m.target) - SquareRank(m.source)
           = (IF PieceColor(b[m.source]) = "w" THEN 2 ELSE -2)

PawnBeside(b, color, sq) ==
    \E s \in OnBoardSquares :
        /\ SquareRank(s) = SquareRank(sq)
        /\ Abs(SquareX(s) - SquareX(sq)) = 1
        /\ b[s] = from_color_and_type(color, "p")

C23_EpFileIffDoubleStepBesidePawn ==
    MoveMade =>
        LET m == last.move
            granted == DoubleStep(last.before.board, m)
                       /\ PawnBeside(board, turn, m.target)
        IN  IF granted THEN ep_file = SquareFile(m.target)
            ELSE ep_file = None

\* C23's case: a pawn went two ranks forward past a pawn of the other side
\* and the file is recorded
C23_Witness ==
    /\ MoveMade
    /\ DoubleStep(last.before.board, last.move)
    /\ PawnBeside(board, turn, last.move.target)
    /\ ep_file = SquareFile(last.move.target)

SanComesBack(P, legal, m) ==
    LET info == get_move_info(P, legal, m)
    IN  /\ ~info.raised
        /\ LET got == get_move_from_san(P, legal, info.san)
           IN  ~got.raised /\ MoveEq(got.move, m)

C25_SanRoundTrip ==
    Built =>
        LET legal == get_legal_moves(Cur)
        IN  \A i \in 1..Len(legal.moves) : SanComesBack(Cur, legal, legal.moves[i])

(***************************************************************************)
(* C28: in every state of a Position (after construction or assignment of  *)
(* a FEN the setter accepts, and after make_move) every slot of the board  *)
(* array whose index has a bit of 0x88 is empty.                           *)
(***************************************************************************)
C28_OffBoardSlotsEmpty ==
    Built => \A i \in 0..127 : OffBoard(i) => board[i] = None

(***************************************************************************)
(* C29: move generation ends without an error: for every Position the FEN  *)
(* setter accepts, get_pseudo_legal_moves and get_legal_moves yield a      *)
(* finite sequence of moves and finish without raising.                    *)
(***************************************************************************)
C29_GenerationNeverRaises ==
    Built => /\ ~get_pseudo_legal_moves(Cur).raised
             /\ ~get_legal_moves(Cur).raised

(***************************************************************************)
(* C30: header names are unified without regard to capitalization: the bag *)
(* never holds two entries whose names differ only in capitalization; a    *)
(* known header is stored under its canonical name, any other under the    *)
(* capitalization it was first stored with; lookup, assignment, deletion   *)
(* and membership under any capitalization act on that one entry.          *)
(***************************************************************************)
KnownNames == {KNOWN_HEADERS[i] : i \in 1..Len(KNOWN_HEADERS)}

KnownLowered == {Lower(k) : k \in KnownNames}

StoredNames(headers) == {headers[i].key : i \in 1..Len(headers)}

\* a name in lower case, in upper case, and with the case of its first
\* letter turned
Spellings(k) ==
    {Lower(k), Upper(k),
     (IF Upper(SubSeq(k, 1, 1)) = SubSeq(k, 1, 1)
      THEN Lower(SubSeq(k, 1, 1)) ELSE Upper(SubSeq(k, 1, 1)))
         \o SubSeq(k, 2, Len(k))}

\* the names that are looked up, tested and deleted under every spelling:
\* the one the call just made was about and the stored ones that are not
\* known headers
ProbedNames(headers) ==
    (IF last.op \in {"setitem", "delitem"}
     THEN {normalize_key(headers, last.key)} ELSE {"PlyCount"})
        \cup {k \in StoredNames(headers) : k \notin KnownNames}

\* lookup, membership and deletion under the spellings of k are those under k
ActsAsOneEntry(headers, k) ==
    LET got == getitem(headers, bag_game, ply, k)
        has == contains(headers, bag_game, k)
        del == delitem(headers, k)
    IN  \A s \in Spellings(k) :
            /\ getitem(headers, bag_game, ply, s) = got
            /\ contains(headers, bag_game, s) = has
            /\ delitem(headers, s) = del

C30_NamesUnifiedByCase ==
    \* no two entries differ in capitalization only
    /\ LET lowered == [i \in 1..Len(bag_headers) |-> Lower(bag_headers[i].key)]
       IN  /\ \A i, j \in 1..Len(bag_headers) : lowered[i] = lowered[j] => i = j
           \* a known header is stored under its canonical name
           /\ \A i \in 1..Len(bag_headers) :
                  lowered[i] \in KnownLowered => bag_headers[i].key \in KnownNames
    \* every spelling of a known or stored name is normalized to that name
    /\ \A k \in KnownNames \cup StoredNames(bag_headers) :
           \A s \in Spellings(k) : normalize_key(bag_headers, s) = k
    /\ \A k \in ProbedNames(bag_headers) : ActsAsOneEntry(bag_headers, k)
    \* the call just made did what it does under the normalized name
    /\ last.op = "setitem"
       => LET k == normalize_key(last.before, last.key)
              done == setitem(last.before, bag_game, ply, k, last.value)
          IN  /\ bag_headers = done.headers
              /\ last.raised = done.raised
              /\ (~last.raised /\ k \notin KnownNames)
                 => /\ Stored(bag_headers, k)
                    /\ StoredValue(bag_headers, k) = last.value
                    \* the capitalization first stored is the one kept
                    /\ (\E n \in StoredNames(last.before) :
                            Lower(n) = Lower(last.key))
                       => (Stored(last.before, k)
                           /\ Len(bag_headers) = Len(last.before))
                    /\ (\A n \in StoredNames(last.before) :
                            Lower(n) # Lower(last.key))
                       => k = last.key
    /\ last.op = "delitem"
       => LET k == normalize_key(last.before, last.key)
              done == delitem(last.before, k)
          IN  /\ bag_headers = done.headers
              /\ last.raised = done.raised
              /\ ~last.raised => ~Stored(bag_headers, k)

\* C30's case: a header that is not a known one was stored as Foo and then
\* assigned as FOO: the one entry Foo holds the later value
C30_Witness ==
    /\ last.op = "setitem"
    /\ last.key = "FOO"
    /\ ~last.raised
    /\ Stored(last.before, "Foo")
    /\ Stored(bag_headers, "Foo")
    /\ ~Stored(bag_headers, "FOO")
    /\ StoredValue(bag_headers, "Foo") = "b"
    /\ getitem(bag_headers, bag_game, ply, "foo").value = "b"

(***************************************************************************)
(* C26: a query leaves the Position it is called on as it was: whatever    *)
(* get_pseudo_legal_moves, get_legal_moves, is_attacked, is_check,         *)
(* is_checkmate, is_stalemate, get_move_info, get_move_from_san, the fen   *)
(* getter and hash_position look ahead at, they do on copies; and a move   *)
(* made on a copy does not change the original.                            *)
(***************************************************************************)
C26_QueriesLeaveThePosition ==
    last.op = "query" => Cur = last.before

\* C26's case: get_move_info has ended; it made its move on the copy, which
\* is no longer what the Position is, and looked ahead on copies of the copy
C26_Witness ==
    /\ last.op = "query"
    /\ last.name = "get_move_info"
    /\ last.todo = << >>
    /\ ~last.raised
    /\ last.result = "copy"
    /\ last.copy.turn # turn
    /\ last.inner # last.before
    /\ Cur = last.before

(***************************************************************************)
(* C31: after any sequence of calls on a GameHeaderBag a stored FEN header *)
(* is never the standard start position and is in the form that            *)
(* Position(value).fen produces; assigning a FEN whose Position(value).fen *)
(* is the start position leaves the bag without a FEN header and without   *)
(* the SetUp flag instead of storing it.                                   *)
(***************************************************************************)
\* the text is accepted by Position and its fen is the start position
IsStartFen(value) ==
    LET made == NewPosition(value)
    IN  ~made.raised /\ FenOf(made.pos) = START_FEN

C31_StoredFenCanonical ==
    /\ Stored(bag_headers, "FEN")
           => LET value == StoredValue(bag_headers, "FEN")
                  made == NewPosition(value)
              IN  /\ value # START_FEN
                  /\ ~made.raised
                  /\ FenOf(made.pos) = value
    /\ (last.op = "setitem" /\ Lower(last.key) = "fen"
            /\ IsStartFen(last.value))
           => /\ ~Stored(bag_headers, "FEN")
              /\ ~contains(bag_headers, bag_game, "FEN")
              /\ ~contains(bag_headers, bag_game, "SetUp")
              /\ ~Iterated("FEN") /\ ~Iterated("SetUp")

\* C31's case: the bag held the FEN of a position that was assigned with an
\* en-passant square, stored without it, and the assignment of a text for
\* the start position, not spelled as START_FEN, removed it
C31_Witness ==
    /\ last.op = "setitem" /\ ~last.raised
    /\ last.value = START_EP_FEN
    /\ Stored(last.before, "FEN")
    /\ StoredValue(last.before, "FEN") = "4k3/8/8/8/4P3/8/8/4K3 b - - 0 1"
    /\ ~Stored(bag_headers, "FEN")
    /\ ~contains(bag_headers, bag_game, "SetUp")

(***************************************************************************)
(* C32: header assignment is all-or-nothing: whenever an assignment to a   *)
(* GameHeaderBag raises an error, the headers the bag presents and their   *)
(* values are the same as before the call, whatever calls preceded it.     *)
(***************************************************************************)
\* the headers a bag holding hs presents, each with its value
Contents(hs) ==
    LET keys == iter(hs, bag_game)
    IN  [i \in 1..Len(keys) |->
            <<keys[i], getitem(hs, bag_game, ply, keys[i]).value>>]

C32_AssignmentAllOrNothing ==
    (last.op = "setitem" /\ last.raised)
        => Contents(bag_headers) = Contents(last.before)

(***************************************************************************)
(* C33: in the reading-name state every token that ends in a double quote  *)
(* ends the name and moves the parser to the reading-movetext state, a     *)
(* token that is a quote only included; a token not ending in a quote      *)
(* keeps the parser in the reading-name state; each token is appended to   *)
(* the name, joined by a space, with at most one leading and one trailing  *)
(* quote removed.                                                          *)
(***************************************************************************)
\* the parser builds a table and is about to read a token of a name
ReadingName ==
    /\ CanRead
    /\ ~(classification.none /\ lookup.none)
    /\ current_state = NAME_STATE

\* the token without one leading and one trailing quote
Unquoted(token) == WithoutClosingQuote(WithoutOpeningQuote(token))

C33_QuoteEndsTheName ==
    [][ReadingName
           => /\ current_state' = IF EndsWith(chunks[1], "\"")
                                  THEN MOVETEXT_STATE ELSE NAME_STATE
              /\ current_name'
                     = strip(current_name \o " " \o Unquoted(chunks[1]))]_vars

(***************************************************************************)
(* C34: the parser is in the reading-opening-code state before the first   *)
(* token of every record and again right after each closing "*" token,     *)
(* going from opening code to name to movetext and back; read_all consumes *)
(* every queued token and succeeds exactly when the token stream ends at a *)
(* record boundary, and fails by its assertion when the stream ends inside *)
(* a record, for every parser configuration.                               *)
(***************************************************************************)
\* where a token leads in a record: the code is one token, the name ends
\* with a token ending in a quote, the movetext with the token "*"
AfterToken(state, token) ==
    IF state = ECO_STATE THEN NAME_STATE
    ELSE IF state = NAME_STATE
    THEN IF EndsWith(token, "\"") THEN MOVETEXT_STATE ELSE NAME_STATE
    ELSE IF token = "*" THEN ECO_STATE ELSE MOVETEXT_STATE

\* the part of a record the first n tokens end in
RECURSIVE PartAfter(_, _)
PartAfter(tokens, n) ==
    IF n = 0 THEN ECO_STATE
    ELSE AfterToken(PartAfter(tokens, n - 1), tokens[n])

C34_RecordBoundaries ==
    LET tokens == tokenize(TokenLines(last.stream))
        read == Len(tokens) - Len(chunks)
    IN  /\ (~last.raised /\ PartAfter(tokens, read) = ECO_STATE)
               => current_state = ECO_STATE
        /\ last.op = "read_all"
               => /\ read = Len(tokens)
                  /\ ~last.raised <=> PartAfter(tokens, read) = ECO_STATE

(***************************************************************************)
(* C35: a move packet is applied to the local board only when the side to  *)
(* move in the local Position is the colour of the remote player (black    *)
(* when the local player is white, white otherwise); a move packet that    *)
(* arrives while it is the turn of the local player leaves the local       *)
(* Position unchanged.                                                     *)
(***************************************************************************)
\* the colour the local player has
LocalColor == IF plugin.white THEN "w" ELSE "b"

\* the step is the handling of a packet that is not new, yes or no
MovePacketHandled ==
    last'.op = "lossless_packet" /\ IsMovePacket(last'.data)

C35_PacketMovesOnlyTheRemoteSide ==
    [][(MovePacketHandled /\ plugin.board /\ turn = LocalColor)
           => Cur' = Cur]_vars

(***************************************************************************)
(* C36: a move packet of the opponent that is legal in the current         *)
(* position is applied to the local board unless it is identical to the    *)
(* move packet received just before it in the same game; the first move    *)
(* packet of a newly started game is never ignored because of a packet of  *)
(* an earlier game, on the inviting and on the accepting side.             *)
(***************************************************************************)
\* the data is a move that is legal in the position of the board
LegalPacket(data) ==
    LET parsed == PacketMove(data)
    IN  /\ ~parsed.raised
        /\ MoveIn(parsed.move, get_legal_moves(Cur).moves)

C36_OnlyRepeatsAreDropped ==
    [][(/\ MovePacketHandled
        /\ plugin.board
        /\ last'.friend = plugin.game
        /\ LegalPacket(last'.data)
        /\ last'.data # last.heard)
           => Cur' = ApplyMove(Cur, PacketMove(last'.data).move)]_vars

(***************************************************************************)
(* C37: a move packet changes the local board only if it comes from the    *)
(* friend the game is played with and a board exists; a packet of another  *)
(* friend, the tokens yes, no and new included, never alters the Position  *)
(* of the game in progress.                                                *)
(***************************************************************************)
C37_OnlyTheGameFriendMoves ==
    [][/\ (MovePacketHandled /\ Cur' # Cur)
           => (last'.friend = plugin.game /\ plugin.board)
       /\ (/\ last'.op = "lossless_packet"
           /\ plugin.board
           /\ plugin.game # NO_GAME
           /\ last'.friend # plugin.game)
           => Cur' = Cur]_vars


(***************************************************************************)
(* C38: is_dark() is true exactly for the dark squares of the chessboard,  *)
(* the squares whose file index x and rank index y have an even sum (a1   *)
(* is dark, h1 is light), and is_light() is its negation, on all 64        *)
(* squares.                                                                *)
(***************************************************************************)
C38_DarkSquares ==
    \A sq \in {i \in DOMAIN board : ~OffBoard(i)} :
        /\ is_dark(sq) <=> DarkSquare(sq)
        /\ is_light(sq) <=> ~is_dark(sq)

====
